---- MODULE Spec2Model ----
(***************************************************************************)
(* Model of the file-backed databroker storage backend                     *)
(* (pkg/storage/file: backend.go, keyspaces.go and the value codec).       *)
(*                                                                         *)
(* The store is one ordered byte-keyed map (pebble).  Keys are modelled as *)
(* sequences of bytes and are built by the same encoders as the source, so *)
(* that range scans, key decoding and key collisions behave as in the      *)
(* code.  Time is counted in microseconds, the unit of the index codec.    *)
(*                                                                         *)
(* Put, Patch, Get, SetOptions, Sync and Lease are actions over that map;  *)
(* a Put or Patch is a lock step, one step per record and a commit step,   *)
(* a Sync iterator one step per statement that can block or be observed.   *)
(* The variables marked "history" record what was written and returned;    *)
(* no action reads them.                                                   *)
(***************************************************************************)
EXTENDS Integers, Sequences, FiniteSets, TLC

\* ------------------------------------------------------------------ bounds
MaxVersion == 2     \* latest_record_version never exceeds this in a run
MaxTime    == 1     \* the wall clock runs from 0 to MaxTime
MaxBatch   == 2     \* records per Put / Patch call
MaxTTL     == 2     \* lease ttl is drawn from 0..MaxTTL
MaxDelivered == 3   \* records one Sync subscription delivers

\* ------------------------------------------------------------- input sets
RecordTypes == { <<1>>, <<2>> }
RecordIDs   == { <<1>>, <<0, 1>> }
\* the (type, id) pairs callers write to
RecordKeys  == { << <<1>>, <<1>> >>, << <<1>>, <<0, 1>> >>, << <<2>>, <<1>> >> }
DataValues  == { 1, 2 }
Writers     == { "w1", "w2" }
Subscribers == { "s1" }
LeaseNames  == { <<1>> }
LeaseIDs    == { "h1", "h2" }
Capacities  == { 0, 1 }

Nil == <<>>

\* ------------------------------------------------------------------ bytes
RECURSIVE BytesLess(_, _)
BytesLess(a, b) ==
    IF b = <<>> THEN FALSE
    ELSE IF a = <<>> THEN TRUE
    ELSE IF Head(a) # Head(b) THEN Head(a) < Head(b)
    ELSE BytesLess(Tail(a), Tail(b))

BytesLeq(a, b) == a = b \/ BytesLess(a, b)

HasPrefix(data, prefix) ==
    /\ Len(data) >= Len(prefix)
    /\ SubSeq(data, 1, Len(prefix)) = prefix

\* bytes.IndexByte(data, 0x00), 1-based; 0 when there is none
IndexByte0(data) ==
    IF \E i \in 1..Len(data) : data[i] = 0
    THEN CHOOSE i \in 1..Len(data) : data[i] = 0 /\ \A j \in 1..(i-1) : data[j] # 0
    ELSE 0

From(data, i) == SubSeq(data, i, Len(data))

\* ------------------------------------------------------------ value codec
encodeUint64(value) ==
    << 0, 0, 0, 0,
       (value \div 16777216) % 256, (value \div 65536) % 256,
       (value \div 256) % 256, value % 256 >>

\* the value of the first 8 bytes (the caller checks the length)
decodeUint64(data) ==
    data[5] * 16777216 + data[6] * 65536 + data[7] * 256 + data[8]

encodeTimestamp(value) == encodeUint64(value)

decodeTimestamp(data) == decodeUint64(data)

\* ------------------------------------------------------------- key spaces
prefixMetadataKeySpace                      == 1
prefixRecordKeySpace                        == 2
prefixRecordIndexByModifiedAtKeySpace       == 3
prefixRecordChangeKeySpace                  == 4
prefixRecordChangeIndexByRecordTypeKeySpace == 5
prefixLeaseKeySpace                         == 6
prefixOptionsKeySpace                       == 7

encodeLatestRecordVersionKey == << prefixMetadataKeySpace, 1 >>
encodeServerVersionKey       == << prefixMetadataKeySpace, 2 >>
encodeMigrationKey           == << prefixMetadataKeySpace, 3 >>

\* pebbleutil.PrefixToUpperBound: the prefix with its last byte incremented;
\* the empty prefix has no upper bound (Nil).
PrefixToUpperBound(prefix) ==
    IF prefix = <<>> THEN Nil
    ELSE [prefix EXCEPT ![Len(prefix)] = prefix[Len(prefix)] + 1]

recordEncodeKey(recordType, recordID) ==
    << prefixRecordKeySpace >> \o recordType \o << 0 >> \o recordID

\* the code passes its own, still nil, result upperBound to PrefixToUpperBound
recordBounds == << << prefixRecordKeySpace >>, PrefixToUpperBound(Nil) >>

\* [ok, recordType, recordID]
recordDecodeKey(key) ==
    IF ~HasPrefix(key, << prefixRecordKeySpace >>)
    THEN [ok |-> FALSE, recordType |-> Nil, recordID |-> Nil]
    ELSE LET data == From(key, 2)
             idx  == IndexByte0(data)
         IN  IF idx = 0
             THEN [ok |-> FALSE, recordType |-> Nil, recordID |-> Nil]
             ELSE [ok |-> TRUE,
                   recordType |-> SubSeq(data, 1, idx - 1),
                   recordID   |-> From(data, idx + 1)]

indexEncodeKey(recordType, modifiedAt, recordID) ==
    << prefixRecordIndexByModifiedAtKeySpace >> \o recordType \o << 0 >>
        \o encodeTimestamp(modifiedAt) \o << 0 >> \o recordID

indexBoundsForRecordType(recordType) ==
    << << prefixRecordIndexByModifiedAtKeySpace >> \o recordType \o << 0 >>,
       PrefixToUpperBound(Nil) >>

\* [ok, recordType, modifiedAt, recordID]
indexDecodeKey(key) ==
    LET bad == [ok |-> FALSE, recordType |-> Nil, modifiedAt |-> 0, recordID |-> Nil]
    IN
    IF ~HasPrefix(key, << prefixRecordIndexByModifiedAtKeySpace >>) THEN bad
    ELSE LET data == From(key, 2)
             idx  == IndexByte0(data)
         IN  IF idx = 0 THEN bad
             ELSE LET rest == From(data, idx + 1)
                  IN  IF Len(rest) < 8 THEN bad
                      ELSE [ok |-> TRUE,
                            recordType |-> SubSeq(data, 1, idx - 1),
                            modifiedAt |-> decodeTimestamp(rest),
                            recordID   |-> From(rest, 9)]

recordChangeEncodeKey(version) == encodeUint64(version)

\* a record type, a modified_at and a record id handed to the codec of the
\* index key
IndexKeyStart(recordType, modifiedAt, recordID) ==
    [op |-> "indexKey", pc |-> "start", recordType |-> recordType,
     modifiedAt |-> modifiedAt, recordID |-> recordID,
     key |-> <<>>, decoded |-> indexDecodeKey(<<>>)]

leaseEncodeKey(leaseName) == << prefixLeaseKeySpace >> \o leaseName

optionsEncodeKey(recordType) == << prefixOptionsKeySpace >> \o recordType

\* ------------------------------------------------------------------ state
VARIABLES
    db,        \* the committed key-value store: key |-> value
    now,       \* the wall clock, in microseconds
    mu,        \* Backend.mu: "free" or the operation holding the write lock
    wr,        \* per writer: the Put / Patch call in progress
    got,       \* result of the last Get since the last commit (Nil: none)
    hist,      \* history: the committed record writes, in write order
    nRemoved,  \* history: committed removals of an existing live record
    lastPut,   \* history: the last committed Put / Patch call
    delRun,    \* history: the run of Puts deleting one (type, id), or Nil
    sub,       \* per subscriber: the Sync iterator being consumed
    onRecordChange,  \* Backend.onRecordChange: bound handle |-> wake pending
    leased,    \* history: the last Lease call and the last lease granted
    ret        \* the results of the last call, with its history (Nil: none)

storeVars == << db, now, mu, wr, got, hist, nRemoved, lastPut, delRun >>

vars == << db, now, mu, wr, got, hist, nRemoved, lastPut, delRun,
           sub, onRecordChange, leased, ret >>

\* ------------------------------------------------------- reader / writer
\* pebble Get: << value >>, or Nil for pebble.ErrNotFound
get(r, key) == IF key \in DOMAIN r THEN << r[key] >> ELSE Nil

Set(key, value) == [del |-> FALSE, k |-> key, v |-> value]
Delete(key)     == [del |-> TRUE,  k |-> key, v |-> Nil]

ApplyOp(r, op) ==
    IF op.del
    THEN [k \in DOMAIN r \ {op.k} |-> r[k]]
    ELSE [k \in DOMAIN r \cup {op.k} |-> IF k = op.k THEN op.v ELSE r[k]]

RECURSIVE Apply(_, _)
Apply(r, ops) ==
    IF ops = <<>> THEN r ELSE Apply(ApplyOp(r, Head(ops)), Tail(ops))

\* an indexed batch: key |-> the last operation on it; NewIndexedBatch is
\* the empty one
NewIndexedBatch == [k \in {} |-> Delete(k)]

BatchAdd(batch, ops) ==
    LET touched == { ops[i].k : i \in 1..Len(ops) }
        last(k) == CHOOSE i \in 1..Len(ops) :
                       ops[i].k = k /\ \A j \in (i+1)..Len(ops) : ops[j].k # k
    IN  [k \in DOMAIN batch \cup touched |->
            IF k \in touched THEN ops[last(k)] ELSE batch[k]]

\* reads through an indexed batch see the batch over the store
View(r, batch) ==
    LET deleted == { k \in DOMAIN batch : batch[k].del }
    IN  [k \in (DOMAIN r \cup DOMAIN batch) \ deleted |->
            IF k \in DOMAIN batch THEN batch[k].v ELSE r[k]]

\* (mutant) a commit that stops after the record entries
Commit_recordsOnly(r, batch) ==
    View(r, [k \in { j \in DOMAIN batch : j[1] = prefixRecordKeySpace } |-> batch[k]])

\* batch.Commit: every operation of the batch becomes visible at once
Commit(r, batch) == View(r, batch)

\* keys of r within [lower, upper), upper = Nil meaning no upper bound
KeysInBounds(r, bounds) ==
    { k \in DOMAIN r : /\ BytesLeq(bounds[1], k)
                       /\ (bounds[2] = Nil \/ BytesLess(k, bounds[2])) }

MaxKey(S) == CHOOSE k \in S : \A j \in S : BytesLeq(j, k)
MinKey(S) == CHOOSE k \in S : \A j \in S : BytesLeq(k, j)

RECURSIVE Descending(_)
Descending(S) ==
    IF S = {} THEN <<>>
    ELSE LET k == MaxKey(S) IN << k >> \o Descending(S \ {k})

RECURSIVE Ascending(_)
Ascending(S) ==
    IF S = {} THEN <<>>
    ELSE LET k == MinKey(S) IN << k >> \o Ascending(S \ {k})

\* ---------------------------------------------------------------- records
Record(recordType, recordID, data, deleted) ==
    [type |-> recordType, id |-> recordID, data |-> data,
     version |-> 0, modifiedAt |-> 0, deletedAt |-> deleted]

\* what a caller may pass to Put or Patch
InputRecords ==
    { Record(k[1], k[2], d, FALSE) : k \in RecordKeys, d \in DataValues }
    \cup { Record(k[1], k[2], 1, TRUE) : k \in RecordKeys }

getLatestRecordVersion(r) == r[encodeLatestRecordVersionKey]
getServerVersion(r)       == r[encodeServerVersionKey]

\* (mutant) only the index entry of the record is deleted
deleteRecordLocked_indexOnly(rw, recordType, recordID) ==
    LET found == get(rw, recordEncodeKey(recordType, recordID))
    IN  IF found = Nil THEN <<>>
        ELSE << Delete(indexEncodeKey(found[1].type, found[1].modifiedAt,
                                      found[1].id)) >>

\* (mutant) only the record entry is deleted, its index entry stays
deleteRecordLocked_recordOnly(rw, recordType, recordID) ==
    IF get(rw, recordEncodeKey(recordType, recordID)) = Nil THEN <<>>
    ELSE << Delete(recordEncodeKey(recordType, recordID)) >>

deleteRecordLocked(rw, recordType, recordID) ==
    LET found == get(rw, recordEncodeKey(recordType, recordID))
    IN  IF found = Nil THEN <<>>
        ELSE LET record == found[1]
             IN  << Delete(recordEncodeKey(recordType, recordID)),
                    Delete(indexEncodeKey(record.type, record.modifiedAt, record.id)) >>

\* (mutant) the increment of the latest record version is missing
nextRecordVersion_same(rw) == getLatestRecordVersion(rw)

\* the version updateRecordLocked gives the record it writes
nextRecordVersion(rw) == getLatestRecordVersion(rw) + 1

\* (mutant) the record entry is written before version and modified_at
\* are set
updateRecordLocked_early(rw, record, t) ==
    IF record.deletedAt
    THEN deleteRecordLocked(rw, record.type, record.id)
    ELSE LET latestRecordVersion == nextRecordVersion(rw)
             written == [record EXCEPT !.modifiedAt = t,
                                       !.version = latestRecordVersion]
         IN  << Set(recordChangeEncodeKey(written.version), written),
                Set(recordEncodeKey(written.type, written.id), record),
                Set(indexEncodeKey(written.type, written.modifiedAt, written.id), Nil),
                Set(encodeLatestRecordVersionKey, latestRecordVersion) >>

updateRecordLocked(rw, record, t) ==
    IF record.deletedAt
    THEN deleteRecordLocked(rw, record.type, record.id)
    ELSE LET found   == get(rw, recordEncodeKey(record.type, record.id))
             unindex == IF found = Nil THEN <<>>
                        ELSE << Delete(indexEncodeKey(found[1].type,
                                    found[1].modifiedAt, found[1].id)) >>
             latestRecordVersion == nextRecordVersion(rw)
             written == [record EXCEPT !.modifiedAt = t,
                                       !.version = latestRecordVersion]
         IN  unindex \o
             << Set(recordChangeEncodeKey(written.version), written),
                Set(recordEncodeKey(written.type, written.id), written),
                Set(indexEncodeKey(written.type, written.modifiedAt, written.id), Nil),
                Set(encodeLatestRecordVersionKey, latestRecordVersion) >>

\* storage.PatchRecord: the existing record with the masked fields taken
\* from the input (the only maskable field of the model is data)
PatchRecord(existing, record, maskData) ==
    [existing EXCEPT !.data = IF maskData THEN record.data ELSE existing.data]

\* (mutant) the input is updated as it came, its deleted_at included
patchRecordLocked_asGiven(rw, record, maskData, t) ==
    LET found == get(rw, recordEncodeKey(record.type, record.id))
    IN  IF found = Nil THEN <<>>
        ELSE updateRecordLocked(rw, record, t)

patchRecordLocked(rw, record, maskData, t) ==
    LET found == get(rw, recordEncodeKey(record.type, record.id))
    IN  IF found = Nil THEN <<>>
        ELSE updateRecordLocked(rw, PatchRecord(found[1], record, maskData), t)

\* patchedRecords[i] after patchRecordLocked: the clone of the input, left as
\* it is when no record exists, else patched and, unless deleted, stamped by
\* updateRecordLocked
patchedRecord(rw, record, maskData, t) ==
    LET found == get(rw, recordEncodeKey(record.type, record.id))
    IN  IF found = Nil THEN record
        ELSE LET patched == PatchRecord(found[1], record, maskData)
             IN  IF patched.deletedAt THEN patched
                 ELSE [patched EXCEPT !.modifiedAt = t,
                                      !.version = nextRecordVersion(rw)]

\* the keys iterateForRecordTypeReversed yields: newest first, undecodable
\* keys skipped, the record type replaced by the one asked for
RECURSIVE DecodedIndexKeys(_, _)
DecodedIndexKeys(keys, recordType) ==
    IF keys = <<>> THEN <<>>
    ELSE LET d == indexDecodeKey(Head(keys))
         IN  (IF d.ok
              THEN << [recordType |-> recordType, modifiedAt |-> d.modifiedAt,
                       recordID |-> d.recordID] >>
              ELSE <<>>) \o DecodedIndexKeys(Tail(keys), recordType)

iterateForRecordTypeReversed(r, recordType) ==
    DecodedIndexKeys(Descending(KeysInBounds(r, indexBoundsForRecordType(recordType))),
                     recordType)

\* the loop of enforceOptionsLocked over the iterator's snapshot
RECURSIVE enforceLoop(_, _, _, _)
enforceLoop(rw, keys, cnt, capacity) ==
    IF keys = <<>> THEN <<>>
    ELSE LET key == Head(keys)
             ops == IF cnt + 1 > capacity
                    THEN deleteRecordLocked(rw, key.recordType, key.recordID)
                    ELSE <<>>
         IN  ops \o enforceLoop(Apply(rw, ops), Tail(keys), cnt + 1, capacity)

enforceOptionsLocked(rw, recordType) ==
    LET found == get(rw, optionsEncodeKey(recordType))
    IN  IF found = Nil THEN <<>>
        ELSE IF found[1] = Nil THEN <<>>
        ELSE enforceLoop(rw, iterateForRecordTypeReversed(rw, recordType), 0, found[1][1])

\* enforcement for the touched types, in the order the set yields them
RECURSIVE enforceAll(_, _)
enforceAll(rw, order) ==
    IF order = <<>> THEN <<>>
    ELSE LET ops == enforceOptionsLocked(rw, Head(order))
         IN  ops \o enforceAll(Apply(rw, ops), Tail(order))

Orders(S) == { o \in [1..Cardinality(S) -> S] :
                 \A i, j \in 1..Cardinality(S) : i # j => o[i] # o[j] }

\* ---------------------------------------------------------- init / views
\* migrate (run by Backend.init before the first use): the metadata exists
migrate ==
    (encodeLatestRecordVersionKey :> 0) @@ (encodeServerVersionKey :> 1)
        @@ (encodeMigrationKey :> 1)

IdleWriter ==
    [pc |-> "idle", op |-> "put", batch |-> NewIndexedBatch, n |-> 0,
     types |-> {}, serverVersion |-> 0, entries |-> <<>>, removed |-> 0,
     base |-> 0, single |-> Nil]

\* a subscriber that has not called Sync
IdleSync ==
    [pc |-> "idle", recordType |-> <<>>, serverVersion |-> 0,
     recordVersion |-> 0, wait |-> FALSE,
     ctxDone |-> FALSE, records |-> <<>>, delivered |-> <<>>, seen |-> 0,
     result |-> "none"]

InitStore ==
    /\ db = migrate
    /\ now = 0
    /\ mu = "free"
    /\ wr = [w \in Writers |-> IdleWriter]
    /\ got = Nil
    /\ hist = <<>>
    /\ nRemoved = 0
    /\ lastPut = [op |-> "none", base |-> 0, gone |-> {}, capped |-> {},
                  evicted |-> {}]
    /\ delRun = Nil
    /\ sub = [s \in Subscribers |-> IdleSync]
    /\ onRecordChange = [s \in {} |-> FALSE]
    /\ leased = [call |-> Nil, grant |-> Nil]

Init == InitStore /\ ret = Nil

\* the versions that have an entry in the change log of r
ChangeVersions(r) ==
    { v \in 0..(MaxVersion + MaxBatch) : recordChangeEncodeKey(v) \in DOMAIN r }

\* the keys of the record entries of r
LiveKeys(r) == { k \in DOMAIN r : k[1] = prefixRecordKeySpace }

LiveOfType(r, recordType) ==
    { k \in LiveKeys(r) : r[k].type = recordType }

Tombstones(r) == { v \in ChangeVersions(r) : r[recordChangeEncodeKey(v)].deletedAt }

\* the removals of a record entry among a list of operations
RECURSIVE RemovalCount(_)
RemovalCount(ops) ==
    IF ops = <<>> THEN 0
    ELSE (IF Head(ops).del /\ Head(ops).k[1] = prefixRecordKeySpace THEN 1 ELSE 0)
         + RemovalCount(Tail(ops))

\* the record keys a batch leaves removed
Gone(batch) ==
    { k \in DOMAIN batch : batch[k].del /\ k[1] = prefixRecordKeySpace }

\* the capacity set for a record type, Nil when none is
capacityOf(r, recordType) ==
    LET found == get(r, optionsEncodeKey(recordType))
    IN  IF found = Nil THEN Nil ELSE found[1]

\* the (type, modified_at) of the record entries that are in r and not in after
Evicted(r, after) ==
    { [type |-> r[k].type, modifiedAt |-> r[k].modifiedAt] :
        k \in LiveKeys(r) \ LiveKeys(after) }

\* history of the Puts that delete one (type, id): the counts before the
\* first that found it live, and after the latest
Counts(r) ==
    [log |-> Cardinality(ChangeVersions(r)), latest |-> getLatestRecordVersion(r)]

NextDelRun(single, before, after) ==
    IF single = Nil THEN Nil
    ELSE IF delRun # Nil /\ delRun.n = 1 /\ delRun.key = single[1].key
    THEN [delRun EXCEPT !.n = 2, !.last = Counts(after),
                        !.unchanged = (after = before)]
    ELSE IF single[1].existed
    THEN [key |-> single[1].key, n |-> 1, first |-> Counts(before),
          last |-> Counts(after), unchanged |-> FALSE]
    ELSE Nil

\* ---------------------------------------------------------------- actions
Tick ==
    /\ now < MaxTime
    /\ now' = now + 1
    /\ UNCHANGED << db, mu, wr, got, hist, nRemoved, lastPut, delRun,
                    sub, onRecordChange, leased, ret >>

\* sync.RWMutex: Lock needs the lock free, RLock needs no writer
CanLock == mu = "free"

CanRLock == mu = "free"

\* Put / Patch up to the batch: the write lock, the server version, the batch
WriteLock(w, op) ==
    /\ CanLock
    /\ wr[w].pc = "idle"
    /\ mu' = w
    /\ wr' = [wr EXCEPT ![w] = [IdleWriter EXCEPT !.pc = "locked", !.op = op,
                                   !.serverVersion = getServerVersion(db),
                                   !.base = getLatestRecordVersion(db)]]
    /\ UNCHANGED << db, now, got, hist, nRemoved, lastPut, delRun,
                    sub, onRecordChange, leased, ret >>

PutLock(w) == WriteLock(w, "put")

PatchLock(w) == WriteLock(w, "patch")

\* one turn of the loop over the records; result is what the call's named
\* results hold after it
WriteRecordRet(w, record, ops, result) ==
    LET rw    == View(db, wr[w].batch)
        after == Apply(rw, ops)
        sets  == { i \in 1..Len(ops) :
                     ~ops[i].del /\ \E v \in 0..(MaxVersion + MaxBatch) :
                                      ops[i].k = recordChangeEncodeKey(v) }
        wrote == sets # {}
        stored == ops[CHOOSE i \in sets : TRUE].v
        entry == [type |-> stored.type, id |-> stored.id, data |-> stored.data,
                  version |-> stored.version, modifiedAt |-> stored.modifiedAt,
                  batch |-> wr[w].base]
    IN  /\ wr[w].n < MaxBatch
        /\ getLatestRecordVersion(after) <= MaxVersion
        /\ wr' = [wr EXCEPT ![w].batch = BatchAdd(@, ops),
                            ![w].n = @ + 1,
                            ![w].types = @ \cup { record.type },
                            ![w].removed = @ + RemovalCount(ops),
                            ![w].entries = IF wrote THEN Append(@, entry) ELSE @,
                            ![w].single =
                                IF wr[w].op = "put" /\ wr[w].n = 0 /\ record.deletedAt
                                THEN << [key |-> << record.type, record.id >>,
                                         existed |-> recordEncodeKey(record.type,
                                                        record.id) \in DOMAIN rw] >>
                                ELSE Nil]
        /\ ret' = result
        /\ UNCHANGED << db, now, mu, got, hist, nRemoved, lastPut, delRun,
                        sub, onRecordChange, leased >>

WriteRecord(w, record, ops) == WriteRecordRet(w, record, ops, ret)

PutRecord(w, record) ==
    /\ wr[w].pc = "locked" /\ wr[w].op = "put"
    /\ WriteRecord(w, record, updateRecordLocked(View(db, wr[w].batch), record, now))

PatchRecord_(w, record, maskData) ==
    /\ wr[w].pc = "locked" /\ wr[w].op = "patch"
    /\ WriteRecord(w, record,
                   patchRecordLocked(View(db, wr[w].batch), record, maskData, now))

\* the named results of a Patch call in progress: patchedRecords, and as
\* history the inputs so far, whether each found a record and how many
\* operations it added to the batch
PatchResults ==
    IF ret # Nil /\ ret.op = "Patch" /\ ~ret.done THEN ret
    ELSE [op |-> "Patch", done |-> FALSE, inputs |-> <<>>, patched |-> <<>>]

\* one turn of Patch's loop, patchedRecords[i] kept
PatchRecordRet(w, record, maskData) ==
    /\ wr[w].pc = "locked" /\ wr[w].op = "patch"
    /\ LET rw  == View(db, wr[w].batch)
           ops == patchRecordLocked(rw, record, maskData, now)
       IN  WriteRecordRet(w, record, ops,
               [PatchResults EXCEPT
                   !.inputs = Append(@, [record |-> record,
                                         existed |-> recordEncodeKey(record.type,
                                                         record.id) \in DOMAIN rw,
                                         ops |-> Len(ops)]),
                   !.patched = Append(@, patchedRecord(rw, record, maskData, now))])

\* the options are enforced, the batch is committed, the lock is released;
\* result is what the call returns
WriteCommitRet(w, result) ==
    /\ wr[w].pc = "locked"
    /\ \E order \in Orders(wr[w].types) :
         LET rw      == View(db, wr[w].batch)
             enforce == enforceAll(rw, order)
             batch   == BatchAdd(wr[w].batch, enforce)
         IN  /\ db' = Commit(db, batch)
             /\ hist' = hist \o wr[w].entries
             /\ nRemoved' = nRemoved + wr[w].removed + RemovalCount(enforce)
             /\ lastPut' = [op |-> wr[w].op, base |-> wr[w].base,
                            gone |-> Gone(batch),
                            capped |-> { t \in wr[w].types :
                                           capacityOf(rw, t) # Nil },
                            evicted |-> Evicted(rw, Apply(rw, enforce))]
             /\ delRun' = NextDelRun(wr[w].single, db, Commit(db, batch))
    /\ mu' = "free"
    /\ wr' = [wr EXCEPT ![w] = IdleWriter]
    /\ got' = Nil
    /\ ret' = result
    /\ UNCHANGED << now, sub, onRecordChange, leased >>

WriteCommit(w) == WriteCommitRet(w, ret)

\* the end of a Put
PutCommit(w) == wr[w].op = "put" /\ WriteCommit(w)

\* the end of a Patch, returning patchedRecords
PatchCommit(w) ==
    /\ wr[w].op = "patch"
    /\ WriteCommitRet(w, [PatchResults EXCEPT !.done = TRUE])

\* history of the Puts: the (type, id) the callers have written and not
\* deleted since and that no enforcement has evicted (live), the same with
\* the inputs of the call in progress (next), and what the last call evicted
PutHistory ==
    IF ret # Nil /\ ret.op = "Put" THEN ret
    ELSE [op |-> "Put", live |-> {}, next |-> {}, evicted |-> {}]

\* one turn of Put's loop, the history kept
PutRecordRet(w, record) ==
    /\ wr[w].pc = "locked" /\ wr[w].op = "put"
    /\ WriteRecordRet(w, record,
                      updateRecordLocked(View(db, wr[w].batch), record, now),
                      [PutHistory EXCEPT
                          !.next = IF record.deletedAt
                                   THEN @ \ { << record.type, record.id >> }
                                   ELSE @ \cup { << record.type, record.id >> }])

\* the end of a Put, the history kept
PutCommitRet(w) ==
    /\ wr[w].op = "put"
    /\ LET rw      == View(db, wr[w].batch)
           order   == CHOOSE o \in Orders(wr[w].types) : TRUE
           after   == Apply(rw, enforceAll(rw, order))
           evicted == { << rw[k].type, rw[k].id >> :
                          k \in LiveKeys(rw) \ LiveKeys(after) }
       IN  WriteCommitRet(w, [PutHistory EXCEPT
                                 !.live = PutHistory.next \ evicted,
                                 !.next = PutHistory.next \ evicted,
                                 !.evicted = evicted])

\* the steps of Put and Patch that return an error
FailSteps == { "serverVersion", "record", "options", "commit" }

Prefixes(ops) == { SubSeq(ops, 1, k) : k \in 0..Len(ops) }

\* the operations the failing step may have added to the batch before its
\* error: part of a record's update, part of the enforcement, or all of it
\* when it is the commit that fails
FailedOps(w, step, inputs) ==
    LET rw == View(db, wr[w].batch)
    IN  IF step = "record"
        THEN UNION { Prefixes(IF wr[w].op = "put"
                              THEN updateRecordLocked(rw, record, now)
                              ELSE patchRecordLocked(rw, record, TRUE, now)) :
                       record \in inputs }
        ELSE IF step = "options"
        THEN UNION { Prefixes(enforceAll(rw, order)) : order \in Orders(wr[w].types) }
        ELSE IF step = "commit"
        THEN { enforceAll(rw, order) : order \in Orders(wr[w].types) }
        ELSE { <<>> }

\* (mutant) the batch of a failed call is applied
Abandon_applied(r, batch) == Commit(r, batch)

\* the store after a call that returned an error: the batch was not
\* committed, or its commit failed
Abandon(r, batch) == r

\* a Put or Patch that returns an error at one of its steps and unlocks
WriteFail(w, step, inputs) ==
    /\ wr[w].pc = "locked"
    /\ step = "serverVersion" => wr[w].n = 0
    /\ step = "record" => wr[w].n < MaxBatch
    /\ UNCHANGED << now, got, hist, nRemoved, lastPut, delRun,
                    sub, onRecordChange, leased >>
    /\ \E ops \in FailedOps(w, step, inputs) :
         LET batch == BatchAdd(wr[w].batch, ops)
             after == Abandon(db, batch)
         IN  /\ db' = after
             /\ ret' = [op |-> "WriteFail", step |-> step,
                        pending |-> DOMAIN batch # {},
                        kept |-> after = db,
                        woken |-> { s \in DOMAIN onRecordChange :
                                      onRecordChange'[s] /\ ~onRecordChange[s] },
                        bound |-> DOMAIN onRecordChange]
    /\ mu' = "free"
    /\ wr' = [wr EXCEPT ![w] = IdleWriter]

\* Get: the record entry of (type, id), read under the read lock
Get(recordType, recordID) ==
    /\ CanRLock
    /\ got' = [type |-> recordType, id |-> recordID,
               res |-> get(db, recordEncodeKey(recordType, recordID))]
    /\ UNCHANGED << db, now, mu, wr, hist, nRemoved, lastPut, delRun,
                    sub, onRecordChange, leased, ret >>

\* (mutant) the new capacity is enforced at once: the records of the type
\* are removed when they are more than the capacity
SetOptions_evicts(recordType, options) ==
    /\ CanLock
    /\ db' = IF options = Nil
             THEN ApplyOp(db, Delete(optionsEncodeKey(recordType)))
             ELSE LET over == IF Cardinality({ k \in DOMAIN db :
                                     /\ k[1] = prefixRecordKeySpace
                                     /\ db[k].type = recordType }) > options[1]
                              THEN { k \in DOMAIN db : /\ k[1] = prefixRecordKeySpace
                                                       /\ db[k].type = recordType }
                              ELSE {}
                      set == ApplyOp(db, Set(optionsEncodeKey(recordType), options))
                  IN  [k \in DOMAIN set \ over |-> set[k]]
    /\ lastPut' = [lastPut EXCEPT !.capped = @ \ { recordType }]
    /\ UNCHANGED << now, mu, wr, got, hist, nRemoved, delRun,
                    sub, onRecordChange, leased, ret >>

\* SetOptions: empty options (Nil) delete the entry, others are stored
SetOptions(recordType, options) ==
    /\ CanLock
    /\ db' = IF options = Nil
             THEN ApplyOp(db, Delete(optionsEncodeKey(recordType)))
             ELSE ApplyOp(db, Set(optionsEncodeKey(recordType), options))
    /\ lastPut' = [lastPut EXCEPT !.capped = @ \ { recordType }]
    /\ UNCHANGED << now, mu, wr, got, hist, nRemoved, delRun,
                    sub, onRecordChange, leased, ret >>

\* (mutant) no key is skipped for its record type
skipRecordType_never(previousRecordType, recordType) == FALSE

\* iterateTypes: "skip until the record type changes"
skipRecordType(previousRecordType, recordType) ==
    previousRecordType # <<>> /\ recordType = previousRecordType

\* the loop of iterateTypes over the keys of the iterator, in key order
RECURSIVE iterateTypesLoop(_, _)
iterateTypesLoop(keys, previousRecordType) ==
    IF keys = <<>> THEN <<>>
    ELSE LET d == recordDecodeKey(Head(keys))
         IN  IF ~d.ok
             THEN iterateTypesLoop(Tail(keys), previousRecordType)
             ELSE IF skipRecordType(previousRecordType, d.recordType)
             THEN iterateTypesLoop(Tail(keys), previousRecordType)
             ELSE << d.recordType >> \o iterateTypesLoop(Tail(keys), d.recordType)

\* recordKeySpace.iterateTypes: the keys from the bounds of the key space
iterateTypes(r) ==
    iterateTypesLoop(Ascending(KeysInBounds(r, recordBounds)), <<>>)

\* ListTypes, under the read lock; as history the types of the record
\* entries at the time of the call
ListTypes ==
    /\ CanRLock
    /\ ret' = [op |-> "ListTypes", recordTypes |-> iterateTypes(db),
               types |-> { db[k].type : k \in LiveKeys(db) }]
    /\ UNCHANGED << storeVars, sub, onRecordChange, leased >>

\* the nil error
NoError == "nil"

\* optionsKeySpace.get: the stored options, or pebble.ErrNotFound with the
\* zero value
optionsKeySpaceGet(r, recordType) ==
    LET found == get(r, optionsEncodeKey(recordType))
    IN  IF found = Nil
        THEN [isNil |-> TRUE, options |-> Nil, err |-> "pebble: not found"]
        ELSE [isNil |-> FALSE, options |-> found[1], err |-> NoError]

isNotFound(err) == err = "pebble: not found"

\* what GetOptions returns for the outcome of optionsKeySpace.get: new options
\* together with the error of the get when it is not-found, nil options and a
\* wrapped error in every other case
getOptionsReturn(found) ==
    IF isNotFound(found.err)
    THEN [isNil |-> FALSE, options |-> Nil, err |-> found.err]
    ELSE [isNil |-> TRUE, options |-> Nil,
          err |-> "pebble: error getting options"]

\* GetOptions, under the read lock (options Nil: the empty options)
GetOptions(recordType) ==
    /\ CanRLock
    /\ LET result == getOptionsReturn(optionsKeySpaceGet(db, recordType))
       IN  ret' = [op |-> "GetOptions", type |-> recordType,
                   stored |-> get(db, optionsEncodeKey(recordType)),
                   isNil |-> result.isNil, options |-> result.options,
                   err |-> result.err]
    /\ UNCHANGED << storeVars, sub, onRecordChange, leased >>

\* ------------------------------------------------------------------- Sync
\* signal.Signal: Bind adds a handle without a pending wake, Unbind removes it
Bind(signal, s) == [h \in DOMAIN signal \cup { s } |-> IF h = s THEN FALSE ELSE signal[h]]

Unbind(signal, s) == [h \in DOMAIN signal \ { s } |-> signal[h]]

\* the change-log entries of a record type after a version, oldest first
RECURSIVE ChangedAfter(_, _, _, _)
ChangedAfter(r, recordType, recordVersion, upTo) ==
    IF upTo <= recordVersion THEN <<>>
    ELSE ChangedAfter(r, recordType, recordVersion, upTo - 1)
         \o (IF /\ recordChangeEncodeKey(upTo) \in DOMAIN r
                /\ r[recordChangeEncodeKey(upTo)].type = recordType
             THEN << r[recordChangeEncodeKey(upTo)] >>
             ELSE <<>>)

\* step 3a of the Sync iterator as the specification describes it
readChangeLog(r, recordType, recordVersion) ==
    ChangedAfter(r, recordType, recordVersion, MaxVersion + MaxBatch)

\* Backend.listChangedRecordsAfterLocked: returns no records and no error
listChangedRecordsAfterLocked(r, recordType, recordVersion) == <<>>

\* the iterator returns: the deferred Unbind runs
SyncReturn(s, result, delivered) ==
    /\ sub' = [sub EXCEPT ![s].pc = "done", ![s].result = result,
                          ![s].records = <<>>, ![s].delivered = delivered]
    /\ onRecordChange' = Unbind(onRecordChange, s)

\* the arguments of a Sync call
SyncArgs(recordType, serverVersion, recordVersion, wait) ==
    [IdleSync EXCEPT !.recordType = recordType, !.serverVersion = serverVersion,
                     !.recordVersion = recordVersion, !.wait = wait]

\* (mutant) the server version is not compared
SyncCall_unchecked(s, recordType, serverVersion, recordVersion, wait) ==
    /\ sub[s].pc = "idle"
    /\ CanRLock
    /\ sub' = [sub EXCEPT ![s] =
                 [SyncArgs(recordType, serverVersion, recordVersion, wait)
                      EXCEPT !.pc = "bind"]]
    /\ UNCHANGED << storeVars, onRecordChange, leased, ret >>

\* Sync up to the loop: the server version is compared under the read lock
SyncCall(s, recordType, serverVersion, recordVersion, wait) ==
    /\ sub[s].pc = "idle"
    /\ CanRLock
    /\ sub' = [sub EXCEPT ![s] =
                 IF serverVersion # getServerVersion(db)
                 THEN [SyncArgs(recordType, serverVersion, recordVersion, wait)
                          EXCEPT !.pc = "done",
                                 !.result = "ErrInvalidServerVersion"]
                 ELSE [SyncArgs(recordType, serverVersion, recordVersion, wait)
                          EXCEPT !.pc = "bind"]]
    /\ UNCHANGED << storeVars, onRecordChange, leased, ret >>

\* the caller's context is cancelled
Cancel(s) ==
    /\ sub[s].pc \in { "bind", "list", "yield", "select" }
    /\ ~sub[s].ctxDone
    /\ sub' = [sub EXCEPT ![s].ctxDone = TRUE]
    /\ UNCHANGED << storeVars, onRecordChange, leased, ret >>

\* changed := backend.onRecordChange.Bind()
SyncBind(s) ==
    /\ sub' = [sub EXCEPT ![s].pc = "list"]
    /\ onRecordChange' = Bind(onRecordChange, s)

\* (mutant) a pass that yields nothing goes on to the select, wait or not
SyncList_waits(s, records) ==
    /\ CanRLock
    /\ sub' = [sub EXCEPT ![s].pc = IF Len(records) > 0 THEN "yield" ELSE "select",
                          ![s].records = records, ![s].seen = Len(hist)]
    /\ UNCHANGED onRecordChange

\* the head of the loop: the listing under the read lock, then the branch on
\* its length and on wait
SyncList(s, records) ==
    /\ CanRLock
    /\ IF Len(records) > 0
       THEN /\ sub' = [sub EXCEPT ![s].pc = "yield", ![s].records = records,
                                  ![s].seen = Len(hist)]
            /\ UNCHANGED onRecordChange
       ELSE IF ~sub[s].wait
       THEN /\ sub' = [sub EXCEPT ![s].pc = "done", ![s].result = "end",
                                  ![s].seen = Len(hist)]
            /\ onRecordChange' = Unbind(onRecordChange, s)
       ELSE /\ sub' = [sub EXCEPT ![s].pc = "select", ![s].seen = Len(hist)]
            /\ UNCHANGED onRecordChange

\* one yield of the inner loop; the consumer answers whether it wants more.
\* After the last record the loop continues with the recordVersion it had.
SyncYield(s) ==
    /\ Len(sub[s].delivered) < MaxDelivered
    /\ \E more \in BOOLEAN :
         LET delivered == Append(sub[s].delivered, Head(sub[s].records).version)
         IN  IF ~more
             THEN SyncReturn(s, "stopped", delivered)
             ELSE /\ sub' = [sub EXCEPT ![s].delivered = delivered,
                                        ![s].records = Tail(@),
                                        ![s].pc = IF Tail(sub[s].records) = <<>>
                                                  THEN "list" ELSE "yield"]
                  /\ UNCHANGED onRecordChange

\* (mutant) a select without the case of the cancelled context
SyncSelect_changedOnly(s) ==
    /\ onRecordChange[s]
    /\ sub' = [sub EXCEPT ![s].pc = "list"]
    /\ onRecordChange' = [onRecordChange EXCEPT ![s] = FALSE]

\* the select: a cancelled context or a pending wake, whichever is ready
SyncSelect(s) ==
    \E ready \in { "ctx.Done", "changed" } :
        IF ready = "ctx.Done"
        THEN /\ sub[s].ctxDone
             /\ SyncReturn(s, "canceled", sub[s].delivered)
        ELSE /\ onRecordChange[s]
             /\ sub' = [sub EXCEPT ![s].pc = "list"]
             /\ onRecordChange' = [onRecordChange EXCEPT ![s] = FALSE]

\* the next step of a started iterator, for a given listing
SyncLoop(s, records) ==
    /\ IF sub[s].pc = "bind" THEN SyncBind(s)
       ELSE IF sub[s].pc = "list" THEN SyncList(s, records)
       ELSE IF sub[s].pc = "yield" THEN SyncYield(s)
       ELSE IF sub[s].pc = "select" THEN SyncSelect(s)
       ELSE FALSE
    /\ UNCHANGED << storeVars, leased, ret >>

Sync(s) ==
    SyncLoop(s, listChangedRecordsAfterLocked(db, sub[s].recordType,
                                              sub[s].recordVersion))

\* the iterator over a listing that reads the change log
SyncFeed(s) ==
    SyncLoop(s, readChangeLog(db, sub[s].recordType, sub[s].recordVersion))

\* history of the handles of onRecordChange: how many were bound and how
\* many unbound so far
Handles(bound, unbound) == [op |-> "Sync", bound |-> bound, unbound |-> unbound]

HandlesSoFar == IF ret # Nil /\ ret.op = "Sync" THEN ret ELSE Handles(0, 0)

\* (mutant) the iterator returns without the deferred Unbind
SyncFails_bound(s) ==
    /\ sub' = [sub EXCEPT ![s].pc = "done", ![s].result = "error", ![s].records = <<>>]
    /\ UNCHANGED onRecordChange

\* the listing returned an error: it is yielded and the iterator returns
SyncFails(s) == SyncReturn(s, "error", sub[s].delivered)

\* the next step of a started iterator whose listing reads the change log
\* or fails, with the history of the handles
SyncHandles(s) ==
    /\ IF sub[s].pc = "bind" THEN SyncBind(s)
       ELSE IF sub[s].pc = "list"
       THEN \E failed \in BOOLEAN :
              IF failed THEN CanRLock /\ SyncFails(s)
              ELSE SyncList(s, readChangeLog(db, sub[s].recordType,
                                             sub[s].recordVersion))
       ELSE IF sub[s].pc = "yield" THEN SyncYield(s)
       ELSE IF sub[s].pc = "select" THEN SyncSelect(s)
       ELSE FALSE
    /\ ret' = Handles(HandlesSoFar.bound
                        + Cardinality(DOMAIN onRecordChange' \ DOMAIN onRecordChange),
                      HandlesSoFar.unbound
                        + Cardinality(DOMAIN onRecordChange \ DOMAIN onRecordChange'))
    /\ UNCHANGED << storeVars, leased >>

\* the caller is done with an iterator that returned and makes the next
SyncAgain(s, iterations) ==
    /\ sub[s].pc = "done"
    /\ HandlesSoFar.bound < iterations
    /\ sub' = [sub EXCEPT ![s] = IdleSync]
    /\ UNCHANGED << storeVars, onRecordChange, leased, ret >>

\* recordIndexByModifiedAtKeySpace.decodeKey(encodeKey(...))
IndexKeyRoundTrip ==
    /\ ret # Nil /\ ret.op = "indexKey" /\ ret.pc = "start"
    /\ ret' = [ret EXCEPT
          !.pc = "done",
          !.key = indexEncodeKey(ret.recordType, ret.modifiedAt, ret.recordID),
          !.decoded = indexDecodeKey(indexEncodeKey(ret.recordType, ret.modifiedAt,
                                                    ret.recordID))]
    /\ UNCHANGED << storeVars, sub, onRecordChange, leased >>

\* ------------------------------------------------------------------ Lease
\* leaseKeySpace.get and leaseKeySpace.set: panic("not implemented")
leaseKeySpaceGet(r, leaseName) ==
    [panic |-> TRUE, found |-> FALSE, leaseID |-> "", expiresAt |-> 0]

leaseKeySpaceSet(leaseName, leaseID, expiresAt) ==
    [panic |-> TRUE, ops |-> <<>>]

\* Lease: under the write lock, which the deferred Unlock releases also when
\* the call panics
Lease(leaseName, leaseID, ttl) ==
    /\ CanLock
    /\ LET cur     == leaseKeySpaceGet(db, leaseName)
           acquire == \/ ~cur.found
                      \/ cur.leaseID = leaseID
                      \/ cur.expiresAt < now
           written == leaseKeySpaceSet(leaseName, leaseID, now + ttl)
           call(outcome) == [name |-> leaseName, id |-> leaseID, at |-> now,
                             ttl |-> ttl, outcome |-> outcome,
                             before |-> leased.grant]
       IN  IF cur.panic
           THEN db' = db /\ leased' = [leased EXCEPT !.call = call("panic")]
           ELSE IF ~acquire
           THEN db' = db /\ leased' = [leased EXCEPT !.call = call("false")]
           ELSE IF written.panic
           THEN db' = db /\ leased' = [leased EXCEPT !.call = call("panic")]
           ELSE /\ db' = Apply(db, written.ops)
                /\ leased' = [call |-> call("true"),
                              grant |-> [name |-> leaseName, id |-> leaseID,
                                         expiresAt |-> now + ttl]]
    /\ UNCHANGED << now, mu, wr, got, hist, nRemoved, lastPut, delRun,
                    sub, onRecordChange, ret >>

\* the lease key space as its layout describes it: one entry per lease name,
\* holding the lease id and the expiry
leaseGet(r, leaseName) ==
    LET found == get(r, leaseEncodeKey(leaseName))
    IN  IF found = Nil
        THEN [found |-> FALSE, leaseID |-> "", expiresAt |-> 0]
        ELSE [found |-> TRUE, leaseID |-> found[1].leaseID,
              expiresAt |-> found[1].expiresAt]

leaseSet(leaseName, leaseID, expiresAt) ==
    << Set(leaseEncodeKey(leaseName),
           [leaseID |-> leaseID, expiresAt |-> expiresAt]) >>

\* the branch of Lease on the current entry: acquire or not
leaseAcquires(cur, leaseID, t) ==
    \/ ~cur.found
    \/ cur.leaseID = leaseID
    \/ cur.expiresAt < t

\* (mutant) the entry is written whether or not the lease is acquired
leaseWrite_always(acquire, leaseName, leaseID, expiresAt) ==
    leaseSet(leaseName, leaseID, expiresAt)

\* what Lease writes: nothing when it returns false
leaseWrite(acquire, leaseName, leaseID, expiresAt) ==
    IF acquire THEN leaseSet(leaseName, leaseID, expiresAt) ELSE <<>>

\* Lease over that key space
LeaseStored(leaseName, leaseID, ttl) ==
    /\ CanLock
    /\ LET cur     == leaseGet(db, leaseName)
           acquire == leaseAcquires(cur, leaseID, now)
           after   == Apply(db, leaseWrite(acquire, leaseName, leaseID, now + ttl))
       IN  /\ db' = after
           /\ leased' =
                 [call |-> [name |-> leaseName, id |-> leaseID, at |-> now,
                            ttl |-> ttl,
                            outcome |-> IF acquire THEN "true" ELSE "false",
                            before |-> leased.grant, cur |-> cur,
                            kept |-> (after = db),
                            stored |-> leaseGet(after, leaseName)],
                  grant |-> IF acquire
                            THEN [name |-> leaseName, id |-> leaseID,
                                  expiresAt |-> now + ttl]
                            ELSE leased.grant]
    /\ UNCHANGED << now, mu, wr, got, hist, nRemoved, lastPut, delRun,
                    sub, onRecordChange, ret >>

\* -------------------------------------------------------------- reconcile
\* strings.Compare
Compare(a, b) == IF a = b THEN 0 ELSE IF BytesLess(a, b) THEN -1 ELSE 1

\* (mutant) the records are ordered by their id alone
CompareRecordsByTypeAndID_idOnly(x, y) == Compare(x.id, y.id)

\* cmp.Or of the two comparisons: the first that is not zero
CompareRecordsByTypeAndID(x, y) ==
    IF Compare(x.type, y.type) # 0 THEN Compare(x.type, y.type)
    ELSE Compare(x.id, y.id)

\* the items of a tree set of records under CompareRecordsByTypeAndID
RECURSIVE Items(_)
Items(records) ==
    IF records = {} THEN <<>>
    ELSE LET first == CHOOSE x \in records :
                          \A y \in records : CompareRecordsByTypeAndID(x, y) <= 0
         IN  << first >> \o Items(records \ { first })

RecordChange(original, desired) == [Original |-> original, Desired |-> desired]

\* the iterator before its first turn: both collections pulled from the start
ReconcileStart(original, desired) ==
    [op |-> "Reconcile", pc |-> "loop", A |-> original, B |-> desired,
     original |-> original, desired |-> desired, changes |-> <<>>]

\* yield(change): the consumer takes it and says whether it wants more; if
\* so the loop goes on with what is left of the two collections
ReconcileYield(change, original, desired) ==
    \E more \in BOOLEAN :
        ret' = IF more
               THEN [ret EXCEPT !.changes = Append(@, change),
                                !.original = original, !.desired = desired]
               ELSE [ret EXCEPT !.changes = Append(@, change), !.pc = "stopped"]

\* one turn of the loop of ReconcileSortedRecordCollections
ReconcileLoop ==
    /\ ret # Nil /\ ret.op = "Reconcile" /\ ret.pc = "loop"
    /\ LET original == ret.original
           desired  == ret.desired
       IN  IF original = <<>> /\ desired = <<>>
           THEN ret' = [ret EXCEPT !.pc = "done"]
           ELSE IF desired = <<>>
           THEN ReconcileYield(RecordChange(Head(original), Nil),
                               Tail(original), desired)
           ELSE IF original = <<>>
           THEN ReconcileYield(RecordChange(Nil, Head(desired)),
                               original, Tail(desired))
           ELSE LET c == CompareRecordsByTypeAndID(Head(original), Head(desired))
                IN  IF c < 0
                    THEN ReconcileYield(RecordChange(Head(original), Nil),
                                        Tail(original), desired)
                    ELSE IF c > 0
                    THEN ReconcileYield(RecordChange(Nil, Head(desired)),
                                        original, Tail(desired))
                    ELSE IF Head(original).data # Head(desired).data
                    THEN ReconcileYield(RecordChange(Head(original), Head(desired)),
                                        Tail(original), Tail(desired))
                    ELSE ret' = [ret EXCEPT !.original = Tail(original),
                                            !.desired = Tail(desired)]
    /\ UNCHANGED << storeVars, sub, onRecordChange, leased >>

\* the same loop over input iterators that may yield errors, with the
\* pulls and the stops of iter.Pull2: an item of an input is a record or
\* an error
RecordItem(record) == [record |-> record, err |-> "nil"]
ErrorItem(err) == [record |-> Nil, err |-> err]

\* next() of a pulled iterator that has items left: the record, the error,
\* and whether there was an item
Pull2(items) ==
    IF items = <<>> THEN [record |-> Nil, err |-> "nil", valid |-> FALSE]
    ELSE [record |-> Head(items).record, err |-> Head(items).err, valid |-> TRUE]

\* the iterator after the two first pulls. pulls counts the pulls made,
\* pulledAtYield is that count as the last item was yielded, afterErr
\* counts the items yielded while an error was in hand.
ReconcilePulled(original, desired) ==
    [op |-> "ReconcileErrors", pc |-> "loop",
     originalRecord |-> Pull2(original), desiredRecord |-> Pull2(desired),
     original |-> IF original = <<>> THEN <<>> ELSE Tail(original),
     desired |-> IF desired = <<>> THEN <<>> ELSE Tail(desired),
     out |-> <<>>, pulls |-> 2, pulledAtYield |-> 0, afterErr |-> 0,
     declined |-> FALSE, originalStop |-> FALSE, desiredStop |-> FALSE]

\* (mutant) the return runs the stop of the original alone
ReconcileReturn_leaks(r) ==
    [r EXCEPT !.pc = "returned", !.originalStop = TRUE]

\* return: the deferred originalStop and desiredStop run
ReconcileReturn(r) ==
    [r EXCEPT !.pc = "returned", !.originalStop = TRUE, !.desiredStop = TRUE]

\* originalNext(), desiredNext() or both
ReconcileNext(r, which) ==
    LET o == which \in { "original", "both" }
        d == which \in { "desired", "both" }
    IN  [r EXCEPT
           !.originalRecord = IF o THEN Pull2(r.original) ELSE @,
           !.original = IF o /\ r.original # <<>> THEN Tail(@) ELSE @,
           !.desiredRecord = IF d THEN Pull2(r.desired) ELSE @,
           !.desired = IF d /\ r.desired # <<>> THEN Tail(@) ELSE @,
           !.pulls = @ + (IF o THEN 1 ELSE 0) + (IF d THEN 1 ELSE 0)]

\* yield(item, err) made with r in hand
ReconcileYielded(r, item) ==
    [r EXCEPT !.out = Append(@, item), !.pulledAtYield = r.pulls,
              !.afterErr = @ + IF r.originalRecord.err # "nil" \/ r.desiredRecord.err # "nil"
                               THEN 1 ELSE 0]

\* "if !yield(change, nil) { return }" and the pulls that follow
ReconcileChange(change, which) ==
    \E more \in BOOLEAN :
        ret' = IF more
               THEN ReconcileNext(ReconcileYielded(ret, [change |-> change, err |-> "nil"]),
                                  which)
               ELSE ReconcileReturn([ReconcileYielded(ret, [change |-> change, err |-> "nil"])
                                        EXCEPT !.declined = TRUE])

\* one turn of the loop of ReconcileSortedRecordCollections
ReconcileSortedRecordCollections ==
    /\ ret # Nil /\ ret.op = "ReconcileErrors" /\ ret.pc = "loop"
    /\ LET o == ret.originalRecord
           d == ret.desiredRecord
       IN  IF o.err # "nil"
           THEN ret' = ReconcileReturn(ReconcileYielded(ret, [change |-> Nil, err |-> o.err]))
           ELSE IF d.err # "nil"
           THEN ret' = ReconcileReturn(ReconcileYielded(ret, [change |-> Nil, err |-> d.err]))
           ELSE IF ~o.valid /\ ~d.valid
           THEN ret' = ReconcileReturn(ret)
           ELSE IF ~d.valid
           THEN ReconcileChange(RecordChange(o.record, Nil), "original")
           ELSE IF ~o.valid
           THEN ReconcileChange(RecordChange(Nil, d.record), "desired")
           ELSE LET c == CompareRecordsByTypeAndID(o.record, d.record)
                IN  IF c < 0
                    THEN ReconcileChange(RecordChange(o.record, Nil), "original")
                    ELSE IF c > 0
                    THEN ReconcileChange(RecordChange(Nil, d.record), "desired")
                    ELSE IF o.record.data # d.record.data
                    THEN ReconcileChange(RecordChange(o.record, d.record), "both")
                    ELSE ret' = ReconcileNext(ret, "both")
    /\ UNCHANGED << storeVars, sub, onRecordChange, leased >>

\* ----------------------------------------------------------------- filter
\* the filter AST: Equals over a path of field names and a value, And and Or
\* over a list of children (names and values are numbers, ordered as the
\* strings they stand for)
EqualsFilterExpression(fields, value) ==
    [kind |-> "equals", Fields |-> fields, Value |-> value, children |-> <<>>]

AndFilterExpression(children) ==
    [kind |-> "and", Fields |-> <<>>, Value |-> 0, children |-> children]

OrFilterExpression(children) ==
    [kind |-> "or", Fields |-> <<>>, Value |-> 0, children |-> children]

\* cmp.Or(slices.Compare(a.Fields, b.Fields), cmp.Compare(a.Value, b.Value))
cmpEqualsFilterExpression(a, b) ==
    IF Compare(a.Fields, b.Fields) # 0 THEN Compare(a.Fields, b.Fields)
    ELSE IF a.Value = b.Value THEN 0
    ELSE IF a.Value < b.Value THEN -1 ELSE 1

\* slices.CompareFunc(a, b, cmpEqualsFilterExpression)
RECURSIVE CompareFunc(_, _)
CompareFunc(a, b) ==
    IF a = <<>> /\ b = <<>> THEN 0
    ELSE IF a = <<>> THEN -1
    ELSE IF b = <<>> THEN 1
    ELSE IF cmpEqualsFilterExpression(Head(a), Head(b)) # 0
    THEN cmpEqualsFilterExpression(Head(a), Head(b))
    ELSE CompareFunc(Tail(a), Tail(b))

\* slices.SortFunc of a conjunct: elements that compare equal are equal, so
\* the order of the result is determined
RECURSIVE SortConjunct(_)
SortConjunct(xs) ==
    IF xs = <<>> THEN <<>>
    ELSE LET i == CHOOSE i \in 1..Len(xs) :
                      \A j \in 1..Len(xs) : cmpEqualsFilterExpression(xs[i], xs[j]) <= 0
         IN  << xs[i] >> \o SortConjunct(SubSeq(xs, 1, i - 1) \o SubSeq(xs, i + 1, Len(xs)))

\* slices.SortFunc of the list of conjuncts
RECURSIVE SortDNF(_)
SortDNF(dnf) ==
    IF dnf = <<>> THEN <<>>
    ELSE LET i == CHOOSE i \in 1..Len(dnf) :
                      \A j \in 1..Len(dnf) : CompareFunc(dnf[i], dnf[j]) <= 0
         IN  << dnf[i] >> \o SortDNF(SubSeq(dnf, 1, i - 1) \o SubSeq(dnf, i + 1, Len(dnf)))

\* slices.CompactFunc with "compare = 0": runs of equal elements become one
RECURSIVE Compact(_)
Compact(xs) ==
    IF Len(xs) <= 1 THEN xs
    ELSE IF xs[1] = xs[2] THEN Compact(Tail(xs))
    ELSE << xs[1] >> \o Compact(Tail(xs))

\* (mutant) the conjuncts are left in the order toDNF built them
sortAndCompactConjunct_unsorted(xs) == Compact(xs)

sortAndCompactConjunct(xs) == Compact(SortConjunct(xs))

sortAndCompact(dnf) ==
    Compact(SortDNF([i \in 1..Len(dnf) |-> sortAndCompactConjunct(dnf[i])]))

\* slices.Concat of a list of lists
RECURSIVE Concat(_)
Concat(xss) == IF xss = <<>> THEN <<>> ELSE Head(xss) \o Concat(Tail(xss))

\* (mutant) the product in which an empty sequence leaves nothing
RECURSIVE Product_cartesian(_)
Product_cartesian(seqs) ==
    IF Len(seqs) = 0 THEN <<>>
    ELSE IF Len(seqs) = 1 THEN [i \in 1..Len(seqs[1]) |-> << seqs[1][i] >>]
    ELSE Concat([i \in 1..Len(seqs[1]) |->
                   [j \in 1..Len(Product_cartesian(Tail(seqs))) |->
                      << seqs[1][i] >> \o Product_cartesian(Tail(seqs))[j]]])

\* iterutil.Product: no sequence gives nothing, one gives its elements as
\* singletons, more give each element of the first before each list of the
\* product of the rest; an empty rest leaves the singleton of the element,
\* an empty first leaves the product of the rest
RECURSIVE Product(_)
Product(seqs) ==
    IF Len(seqs) = 0 THEN <<>>
    ELSE IF Len(seqs) = 1 THEN [i \in 1..Len(seqs[1]) |-> << seqs[1][i] >>]
    ELSE LET first == seqs[1]
             rest  == Product(Tail(seqs))
         IN  IF first = <<>> THEN rest
             ELSE Concat([i \in 1..Len(first) |->
                            IF rest = <<>> THEN << << first[i] >> >>
                            ELSE [j \in 1..Len(rest) |-> << first[i] >> \o rest[j]]])

\* toDNF: the loop of the And case, dnf being the product so far
RECURSIVE toDNF(_)
RECURSIVE toDNFAnd(_, _)
toDNFAnd(dnf, children) ==
    IF children = <<>> THEN dnf
    ELSE LET xss  == Product(<< dnf, toDNF(Head(children)) >>)
             next == [i \in 1..Len(xss) |-> Concat(xss[i])]
         IN  toDNFAnd(next, Tail(children))

toDNF(filter) ==
    IF filter = Nil THEN << <<>> >>
    ELSE IF filter.kind = "equals" THEN << << filter >> >>
    ELSE IF filter.kind = "and" THEN toDNFAnd(<<>>, filter.children)
    ELSE Concat([i \in 1..Len(filter.children) |-> toDNF(filter.children[i])])

FilterToDNF(filter) == sortAndCompact(toDNF(filter))

\* strings.Join(f.Fields, ".") + "=" + f.Value, as a list of tokens
RECURSIVE Join(_)
Join(fields) ==
    IF fields = <<>> THEN <<>>
    ELSE IF Len(fields) = 1 THEN << fields[1] >>
    ELSE << fields[1], "." >> \o Join(Tail(fields))

EqualsString(f) == Join(f.Fields) \o << "=", f.Value >>

\* DNF.String, as a list of tokens
ConjunctString(x) ==
    << "(" >>
    \o Concat([j \in 1..Len(x) |->
                  (IF j > 1 THEN << "&" >> ELSE <<>>) \o EqualsString(x[j])])
    \o << ")" >>

DNFString(dnf) ==
    Concat([i \in 1..Len(dnf) |->
              (IF i > 1 THEN << "|" >> ELSE <<>>) \o ConjunctString(dnf[i])])

\* ---------------------------------------------------------- file watcher
\* internal/fileutil: a file on disk is a regular file the watcher can
\* read, a file it can stat but not open ("locked"), a link to nothing
\* ("dangling": Lstat succeeds, Stat fails) or missing
MaxPolls == 4
MaxModTime == 2
Paths == { 1 }
Contents == { "a", "b", "ab" }
Size(content) == IF content = "ab" THEN 2 ELSE 1
MissingFile == [kind |-> "missing", time |-> 0, content |-> ""]
Files ==
    { MissingFile }
        \cup [kind : { "file", "locked", "dangling" }, time : 1..MaxModTime, content : Contents]
Unreadable(file) == file.kind # "file"

\* os.Lstat, os.Stat with getFileModTime, and hashFile on a file
Lstat(file) ==
    [err |-> file.kind = "missing", size |-> Size(file.content), time |-> file.time]
Stat(file) ==
    [err |-> file.kind \in { "missing", "dangling" }, size |-> Size(file.content), time |-> file.time]
hashFile(file) ==
    IF file.kind # "file" THEN [err |-> TRUE, hash |-> 0]
    ELSE [err |-> FALSE,
          hash |-> IF file.content = "a" THEN 11 ELSE IF file.content = "b" THEN 12 ELSE 13]

\* &watchedFile{path: path}
watchedFile ==
    [on |-> TRUE, linkSize |-> 0, linkTime |-> 0, fileSize |-> 0, fileTime |-> 0, hash |-> 0]
NotWatched == [watchedFile EXCEPT !.on = FALSE]

\* a check that reports a change whenever the file cannot be hashed
watchedFileCheck_errorChanges(f, file, force) ==
    LET li == Lstat(file)
        fi == Stat(file)
        stat == [f EXCEPT !.linkSize = IF li.err THEN 0 ELSE li.size,
                          !.linkTime = IF li.err THEN 0 ELSE li.time,
                          !.fileSize = IF fi.err THEN 0 ELSE fi.size,
                          !.fileTime = IF fi.err THEN 0 ELSE fi.time]
    IN  IF stat # f \/ force
        THEN [f |-> [stat EXCEPT !.hash = hashFile(file).hash],
              changed |-> hashFile(file).err \/ f.hash # hashFile(file).hash]
        ELSE [f |-> stat, changed |-> FALSE]

\* watchedFile.check: the four swaps of size and time, zero on an error;
\* when one of them changed or the check is forced, the swap of the hash,
\* zero on an error, and that swap alone is the answer
watchedFileCheck(f, file, force) ==
    LET li == Lstat(file)
        fi == Stat(file)
        stat == [f EXCEPT !.linkSize = IF li.err THEN 0 ELSE li.size,
                          !.linkTime = IF li.err THEN 0 ELSE li.time,
                          !.fileSize = IF fi.err THEN 0 ELSE fi.size,
                          !.fileTime = IF fi.err THEN 0 ELSE fi.time]
    IN  IF stat # f \/ force
        THEN [f |-> [stat EXCEPT !.hash = hashFile(file).hash],
              changed |-> f.hash # hashFile(file).hash]
        ELSE [f |-> stat, changed |-> FALSE]

\* NewWatcher with the files on disk: nothing watched, no recheck waiting.
\* signals counts, per file, the broadcasts made for it since the file last
\* changed on disk or was added; added tells that the file has not changed
\* since Watch added it; last is the last check made.
NewWatcher(fs) ==
    [op |-> "Watcher", pc |-> "run", fs |-> fs,
     watching |-> [p \in Paths |-> NotWatched],
     pending |-> [p \in Paths |-> 0],
     signals |-> [p \in Paths |-> 0],
     added |-> [p \in Paths |-> FALSE],
     polls |-> 0,
     last |-> [op |-> "", changed |-> FALSE]]

\* the file at path p changes on disk
FileChange(p, file) ==
    /\ ret # Nil /\ ret.op = "Watcher"
    /\ file # ret.fs[p]
    /\ ret' = [ret EXCEPT !.fs[p] = file, !.signals[p] = 0, !.added[p] = FALSE,
                          !.last = [op |-> "", changed |-> FALSE]]
    /\ UNCHANGED << storeVars, sub, onRecordChange, leased >>

\* Watcher.Watch: files no longer named are dropped, new ones are added
\* after one forced check
WatcherWatch(filePaths) ==
    /\ ret # Nil /\ ret.op = "Watcher"
    /\ filePaths # { p \in Paths : ret.watching[p].on }
    /\ ret' = [ret EXCEPT
          !.watching = [p \in Paths |->
              IF p \notin filePaths THEN NotWatched
              ELSE IF ret.watching[p].on THEN ret.watching[p]
              ELSE watchedFileCheck(watchedFile, ret.fs[p], TRUE).f],
          !.signals = [p \in Paths |->
              IF p \in filePaths /\ ~ret.watching[p].on THEN 0 ELSE ret.signals[p]],
          !.added = [p \in Paths |->
              IF p \in filePaths /\ ~ret.watching[p].on THEN TRUE
              ELSE p \in filePaths /\ ret.added[p]],
          !.last = [op |-> "Watch", changed |-> FALSE]]
    /\ UNCHANGED << storeVars, sub, onRecordChange, leased >>

\* Watcher.check on a tick: every watched file is checked, a changed one
\* gets a recheck started, and one broadcast is made when any changed
WatcherCheck ==
    /\ ret # Nil /\ ret.op = "Watcher"
    /\ ret.polls < MaxPolls
    /\ LET res == [p \in Paths |-> watchedFileCheck(ret.watching[p], ret.fs[p], FALSE)]
           hit == { p \in Paths : ret.watching[p].on /\ res[p].changed }
       IN  ret' = [ret EXCEPT
             !.watching = [p \in Paths |->
                 IF ret.watching[p].on THEN res[p].f ELSE ret.watching[p]],
             !.pending = [p \in Paths |-> ret.pending[p] + IF p \in hit THEN 1 ELSE 0],
             !.signals = [p \in Paths |-> ret.signals[p] + IF p \in hit THEN 1 ELSE 0],
             !.polls = ret.polls + 1,
             !.last = [op |-> "check", changed |-> hit # {}]]
    /\ UNCHANGED << storeVars, sub, onRecordChange, leased >>

\* Watcher.waitAndRecheck after the recheck interval: a forced check of the
\* file if it is still watched, and a broadcast when it changed
waitAndRecheck(p) ==
    /\ ret # Nil /\ ret.op = "Watcher"
    /\ ret.pending[p] > 0
    /\ LET res == watchedFileCheck(ret.watching[p], ret.fs[p], TRUE)
           hit == ret.watching[p].on /\ res.changed
       IN  ret' = [ret EXCEPT
             !.watching[p] = IF ret.watching[p].on THEN res.f ELSE @,
             !.pending[p] = @ - 1,
             !.signals[p] = @ + IF hit THEN 1 ELSE 0,
             !.last = [op |-> "recheck", changed |-> hit]]
    /\ UNCHANGED << storeVars, sub, onRecordChange, leased >>

\* the comparators handed to SortedUnion: cmp.Compare, and the difference
\* of the numbers
compare(kind, a, b) ==
    IF kind = "difference" THEN a - b
    ELSE IF a < b THEN -1 ELSE IF a > b THEN 1 ELSE 0

\* the loop of SortedUnion over two sequences: a and b are what the two
\* pulled iterators have left, the value in hand first; hungA and hungB
\* tell that the iterator never returns from the pull after its last
\* value. The result is what was yielded and whether the loop never ends:
\* the switch has cases for -1, 0 and 1 only, any other result of the
\* comparator pulls nothing and the loop goes round with the same values.
RECURSIVE SortedUnionLoop(_, _, _, _, _, _)
SortedUnionLoop(kind, a, hungA, b, hungB, out) ==
    IF (a = <<>> /\ hungA) \/ (b = <<>> /\ hungB) THEN [out |-> out, hung |-> TRUE]
    ELSE IF a = <<>> /\ b = <<>> THEN [out |-> out, hung |-> FALSE]
    ELSE IF a = <<>>
    THEN SortedUnionLoop(kind, a, hungA, Tail(b), hungB, Append(out, Head(b)))
    ELSE IF b = <<>>
    THEN SortedUnionLoop(kind, Tail(a), hungA, b, hungB, Append(out, Head(a)))
    ELSE IF compare(kind, Head(a), Head(b)) = -1
    THEN SortedUnionLoop(kind, Tail(a), hungA, b, hungB, Append(out, Head(a)))
    ELSE IF compare(kind, Head(a), Head(b)) = 0
    THEN SortedUnionLoop(kind, Tail(a), hungA, Tail(b), hungB, Append(out, Head(a)))
    ELSE IF compare(kind, Head(a), Head(b)) = 1
    THEN SortedUnionLoop(kind, a, hungA, Tail(b), hungB, Append(out, Head(b)))
    ELSE [out |-> out, hung |-> TRUE]

\* SortedUnion: nothing for no sequence, the sequence itself for one, the
\* loop for two, and for more the union of the unions of the two halves
RECURSIVE SortedUnion(_, _)
SortedUnion(kind, seqs) ==
    IF Len(seqs) = 0 THEN [out |-> <<>>, hung |-> FALSE]
    ELSE IF Len(seqs) = 1 THEN [out |-> seqs[1], hung |-> FALSE]
    ELSE IF Len(seqs) = 2
    THEN SortedUnionLoop(kind, seqs[1], FALSE, seqs[2], FALSE, <<>>)
    ELSE LET half == Len(seqs) \div 2
             l == SortedUnion(kind, SubSeq(seqs, 1, half))
             r == SortedUnion(kind, SubSeq(seqs, half + 1, Len(seqs)))
         IN  SortedUnionLoop(kind, l.out, l.hung, r.out, r.hung, <<>>)

\* sequences and a comparator handed to SortedUnion
SortedUnionStart(kind, seqs) ==
    [op |-> "SortedUnion", pc |-> "start", kind |-> kind, seqs |-> seqs, out |-> <<>>]

\* slices.Collect(SortedUnion(compare, seqs...)): it returns, or it has
\* yielded what it could and runs on for ever
SortedUnionCollect ==
    /\ ret # Nil /\ ret.op = "SortedUnion" /\ ret.pc = "start"
    /\ ret' = [ret EXCEPT !.pc = IF SortedUnion(ret.kind, ret.seqs).hung
                                 THEN "running" ELSE "done",
                          !.out = SortedUnion(ret.kind, ret.seqs).out]
    /\ UNCHANGED << storeVars, sub, onRecordChange, leased >>

\* sequences handed to Product
ProductStart(seqs) == [op |-> "Product", pc |-> "start", seqs |-> seqs, out |-> <<>>]

\* slices.Collect(Product(seqs...))
ProductCollect ==
    /\ ret # Nil /\ ret.op = "Product" /\ ret.pc = "start"
    /\ ret' = [ret EXCEPT !.pc = "done", !.out = Product(ret.seqs)]
    /\ UNCHANGED << storeVars, sub, onRecordChange, leased >>

\* the filters one step away in nesting or in the order of children: two
\* neighbouring children exchanged, or a child of the kind of its parent
\* replaced by its own children, at the root or below it
RECURSIVE Rearranged(_)
Rearranged(filter) ==
    IF filter.kind = "equals" THEN {}
    ELSE LET cs == filter.children
             n  == Len(cs)
         IN  { [filter EXCEPT !.children =
                   [j \in 1..n |-> IF j = i THEN cs[i + 1]
                                   ELSE IF j = i + 1 THEN cs[i] ELSE cs[j]]] :
                 i \in 1..(n - 1) }
             \cup { [filter EXCEPT !.children =
                        SubSeq(cs, 1, i - 1) \o cs[i].children \o SubSeq(cs, i + 1, n)] :
                      i \in { j \in 1..n : cs[j].kind = filter.kind } }
             \cup UNION { { [filter EXCEPT !.children[i] = g] : g \in Rearranged(cs[i]) } :
                            i \in 1..n }

\* a filter handed to FilterToDNF
FilterStart(filter) ==
    [op |-> "FilterToDNF", pc |-> "start", filter |-> filter, dnf |-> <<>>,
     string |-> <<>>, other |-> filter, otherString |-> <<>>]

\* FilterToDNF(filter).String()
Convert ==
    /\ ret # Nil /\ ret.op = "FilterToDNF" /\ ret.pc = "start"
    /\ ret' = [ret EXCEPT !.pc = "done",
                          !.dnf = FilterToDNF(ret.filter),
                          !.string = DNFString(FilterToDNF(ret.filter)),
                          !.otherString = DNFString(FilterToDNF(ret.filter))]
    /\ UNCHANGED << storeVars, sub, onRecordChange, leased >>

\* FilterToDNF(other).String() for a rearrangement of the filter converted last
ConvertRearranged ==
    /\ ret # Nil /\ ret.op = "FilterToDNF" /\ ret.pc = "done"
    /\ \E other \in Rearranged(ret.other) :
         ret' = [ret EXCEPT !.other = other,
                            !.otherString = DNFString(FilterToDNF(other))]
    /\ UNCHANGED << storeVars, sub, onRecordChange, leased >>

\* ------------------------------------------------------ filter from struct
\* structpb values: a string, a list of values, a struct of fields
StringValue(v) == [kind |-> "string", string |-> v, items |-> <<>>, fields |-> <<>>]

ListValue(items) == [kind |-> "list", string |-> "", items |-> items, fields |-> <<>>]

StructValue(fields) == [kind |-> "struct", string |-> "", items |-> <<>>, fields |-> fields]

\* a []string: a window of len cells on a backing array of cap cells (arr 0
\* and cap 0: nil); heap is the list of the backing arrays
NilSlice == [arr |-> 0, len |-> 0, cap |-> 0]

\* the strings a slice shows
SliceValue(heap, slice) ==
    IF slice.arr = 0 THEN <<>> ELSE SubSeq(heap[slice.arr], 1, slice.len)

\* append(path, f): within the capacity the string is written into the
\* backing array the path already has, and the result shares it; beyond it
\* a new array of twice the capacity (of one cell for nil) takes a copy
append(heap, slice, f) ==
    IF slice.len < slice.cap
    THEN [heap  |-> [heap EXCEPT ![slice.arr][slice.len + 1] = f],
          slice |-> [slice EXCEPT !.len = slice.len + 1]]
    ELSE LET newcap == IF slice.cap = 0 THEN 1 ELSE 2 * slice.cap
             cells  == [i \in 1..newcap |->
                          IF i <= slice.len THEN heap[slice.arr][i]
                          ELSE IF i = slice.len + 1 THEN f ELSE ""]
         IN  [heap  |-> Append(heap, cells),
              slice |-> [arr |-> Len(heap) + 1, len |-> slice.len + 1, cap |-> newcap]]

\* sort.Strings of the keys: "$" sorts before the letters
KeyOrder == << "$and", "$eq", "$or", "a", "b" >>

SortStrings(keys) == SelectSeq(KeyOrder, LAMBDA f : f \in keys)

\* the result of one of the filterExpressionFrom functions: the expression
\* (Fields being slices), the heap after it, the error
FilterResult(expr, heap, err) == [expr |-> expr, heap |-> heap, err |-> err]

filterExpressionFromEq(path, v, heap) ==
    IF v.kind = "string"
    THEN FilterResult(EqualsFilterExpression(path, v.string), heap, NoError)
    ELSE FilterResult(Nil, heap, "unsupported struct value type for eq")

RECURSIVE filterExpressionFromValue(_, _, _)
RECURSIVE filterExpressionFromList(_, _, _, _)
RECURSIVE filterExpressionFromStruct(_, _, _)
RECURSIVE filterExpressionFromFields(_, _, _, _, _)
\* the loop of the ListValue case, or being the children so far
filterExpressionFromList(path, items, heap, or) ==
    IF items = <<>> THEN FilterResult(OrFilterExpression(or), heap, NoError)
    ELSE LET r == filterExpressionFromValue(path, Head(items), heap)
         IN  IF r.err # NoError THEN r
             ELSE filterExpressionFromList(path, Tail(items), r.heap, Append(or, r.expr))

filterExpressionFromValue(path, v, heap) ==
    IF v.kind = "list" THEN filterExpressionFromList(path, v.items, heap, <<>>)
    ELSE IF v.kind = "struct" THEN filterExpressionFromStruct(path, v.fields, heap)
    ELSE filterExpressionFromEq(path, v, heap)

\* the loop over the sorted keys fs, and being the children so far
filterExpressionFromFields(path, s, fs, heap, and) ==
    IF fs = <<>>
    THEN FilterResult(IF Len(and) = 1 THEN and[1] ELSE AndFilterExpression(and),
                      heap, NoError)
    ELSE LET f == Head(fs)
             v == s[f]
         IN  IF f \in { "$and", "$or" }
             THEN LET r == filterExpressionFromValue(path, v, heap)
                  IN  IF r.err # NoError THEN r
                      ELSE IF r.expr.kind # "or"
                      THEN FilterResult(Nil, r.heap, "must be an array")
                      ELSE filterExpressionFromFields(path, s, Tail(fs), r.heap,
                             Append(and,
                                    IF Len(r.expr.children) = 1 THEN r.expr.children[1]
                                    ELSE IF f = "$and"
                                    THEN AndFilterExpression(r.expr.children)
                                    ELSE r.expr))
             ELSE IF f = "$eq"
             THEN LET r == filterExpressionFromEq(path, v, heap)
                  IN  IF r.err # NoError THEN r
                      ELSE filterExpressionFromFields(path, s, Tail(fs), r.heap,
                                                      Append(and, r.expr))
             ELSE LET a == append(heap, path, f)
                      r == filterExpressionFromValue(a.slice, v, a.heap)
                  IN  IF r.err # NoError THEN r
                      ELSE filterExpressionFromFields(path, s, Tail(fs), r.heap,
                                                      Append(and, r.expr))

filterExpressionFromStruct(path, s, heap) ==
    filterExpressionFromFields(path, s, SortStrings(DOMAIN s), heap, <<>>)

\* the expression as its holder reads it: every path is what its slice
\* shows in the heap the call left
RECURSIVE Resolve(_, _)
Resolve(expr, heap) ==
    IF expr.kind = "equals"
    THEN EqualsFilterExpression(SliceValue(heap, expr.Fields), expr.Value)
    ELSE [expr EXCEPT !.children =
            [i \in 1..Len(expr.children) |-> Resolve(expr.children[i], heap)]]

\* a struct handed to FilterExpressionFromStruct
FromStructStart(s) ==
    [op |-> "FilterExpressionFromStruct", pc |-> "start", s |-> s,
     expr |-> Nil, err |-> NoError]

\* FilterExpressionFromStruct(s)
FilterExpressionFromStruct ==
    /\ ret # Nil /\ ret.op = "FilterExpressionFromStruct" /\ ret.pc = "start"
    /\ LET r == filterExpressionFromStruct(NilSlice, ret.s, <<>>)
       IN  ret' = [ret EXCEPT !.pc = "done",
                              !.expr = IF r.err = NoError
                                       THEN Resolve(r.expr, r.heap) ELSE Nil,
                              !.err = r.err]
    /\ UNCHANGED << storeVars, sub, onRecordChange, leased >>

\* ----------------------------------------------------------- record match
\* texts are lists of numbers: an address is its family (4 or 6) and
\* AddrBits bits, a prefix is an address, the "/" (47) and the number of
\* leading bits that count; the widths 32 and 128 are scaled to AddrBits
AddrBits == 2

\* netip.ParseAddr: the address of a text, Nil if it is none
ParseAddr(text) ==
    IF /\ Len(text) = AddrBits + 1
       /\ text[1] \in { 4, 6 }
       /\ \A i \in 2..(AddrBits + 1) : text[i] \in { 0, 1 }
    THEN [family |-> text[1], bits |-> SubSeq(text, 2, AddrBits + 1)]
    ELSE Nil

\* netip.ParsePrefix: the prefix of a text, Nil if it is none; bits of the
\* address beyond the length of the prefix are kept as written
ParsePrefix(text) ==
    IF /\ Len(text) = AddrBits + 3
       /\ ParseAddr(SubSeq(text, 1, AddrBits + 1)) # Nil
       /\ text[AddrBits + 2] = 47
       /\ text[AddrBits + 3] \in 0..AddrBits
    THEN [family |-> text[1], bits |-> SubSeq(text, 2, AddrBits + 1),
          len |-> text[AddrBits + 3]]
    ELSE Nil

\* netip.Prefix.Masked: the bits beyond the length are cleared
Masked(prefix) ==
    [prefix EXCEPT !.bits = [i \in 1..AddrBits |->
                               IF i <= prefix.len THEN prefix.bits[i] ELSE 0]]

\* bart.Table.Insert: the table keeps the prefix in its masked form
Insert(tbl, prefix) == tbl \cup { Masked(prefix) }

\* bart.Table.Lookup: some prefix of the table has the address
Lookup(tbl, addr) ==
    \E p \in tbl :
        /\ p.family = addr.family
        /\ SubSeq(p.bits, 1, p.len) = SubSeq(addr.bits, 1, p.len)

\* bart.Table.LookupPrefix: some prefix of the table, no longer than the
\* masked prefix asked for, has its leading bits
LookupPrefix(tbl, prefix) ==
    \E p \in tbl :
        /\ p.family = prefix.family
        /\ p.len <= prefix.len
        /\ SubSeq(p.bits, 1, p.len) = SubSeq(Masked(prefix).bits, 1, p.len)

\* a record for matching: type, id, and the text of $index.cidr in its
\* data (Nil: the data has no $index.cidr)
MatchRecord(type, id, cidr) == [type |-> type, id |-> id, cidr |-> cidr]

\* GetRecordIndexCIDR: Nil without the field, for the empty text and for a
\* text that is no prefix
GetRecordIndexCIDR(record) ==
    IF record.cidr = Nil \/ record.cidr = <<>> THEN Nil
    ELSE ParsePrefix(record.cidr)

\* (mutant) a prefix is looked up as the address it is written with
RecordMatchesIPPrefix_asAddr(record, prefix) ==
    LET cidr == GetRecordIndexCIDR(record)
    IN  IF cidr = Nil THEN FALSE
        ELSE Lookup(Insert({}, cidr), [family |-> prefix.family, bits |-> prefix.bits])

RecordMatchesIPPrefix(record, prefix) ==
    LET cidr == GetRecordIndexCIDR(record)
    IN  IF cidr = Nil THEN FALSE
        ELSE LookupPrefix(Insert({}, cidr), prefix)

RecordMatchesIPAddr(record, addr) ==
    LET cidr == GetRecordIndexCIDR(record)
    IN  IF cidr = Nil THEN FALSE
        ELSE Lookup(Insert({}, cidr), addr)

\* (mutant) a path that is not supported matches nothing, without error
MatchesRecord_lenient(f, record) ==
    [match |-> f.Fields = << "type" >> /\ record.type = f.Value, err |-> NoError]

\* EqualsFilterExpression.MatchesRecord: the match and the error
MatchesRecord(f, record) ==
    IF f.Fields = << "type" >>
    THEN [match |-> record.type = f.Value, err |-> NoError]
    ELSE IF f.Fields = << "id" >>
    THEN [match |-> record.id = f.Value, err |-> NoError]
    ELSE IF f.Fields = << "$index" >>
    THEN [match |-> IF ParsePrefix(f.Value) # Nil
                    THEN RecordMatchesIPPrefix(record, ParsePrefix(f.Value))
                    ELSE IF ParseAddr(f.Value) # Nil
                    THEN RecordMatchesIPAddr(record, ParseAddr(f.Value))
                    ELSE FALSE,
          err |-> NoError]
    ELSE [match |-> FALSE, err |-> "unsupported equals expression"]

\* an Equals and a record handed to MatchesRecord
MatchStart(f, record) ==
    [op |-> "MatchesRecord", pc |-> "start", f |-> f, record |-> record,
     match |-> FALSE, err |-> NoError]

\* f.MatchesRecord(record)
Match ==
    /\ ret # Nil /\ ret.op = "MatchesRecord" /\ ret.pc = "start"
    /\ ret' = [ret EXCEPT !.pc = "done",
                          !.match = MatchesRecord(ret.f, ret.record).match,
                          !.err = MatchesRecord(ret.f, ret.record).err]
    /\ UNCHANGED << storeVars, sub, onRecordChange, leased >>

\* the Equals a filter's numbers stand for: the field names "id" and "type"
\* in their order, the values "a" and "b"
Named(f) ==
    EqualsFilterExpression(<< IF f.Fields = << 1 >> THEN "id" ELSE "type" >>,
                           << 96 + f.Value >>)

\* a record matches a DNF when all the Equals of one conjunct match it
MatchesDNF(dnf, record) ==
    \E i \in 1..Len(dnf) :
        \A j \in 1..Len(dnf[i]) : MatchesRecord(Named(dnf[i][j]), record).match

\* a filter and a record handed to the match through FilterToDNF
MatchDNFStart(filter, record) ==
    [op |-> "MatchesDNF", pc |-> "start", filter |-> filter, record |-> record,
     dnf |-> <<>>, match |-> FALSE]

\* the filter is converted and the record is matched against the DNF
MatchDNF ==
    /\ ret # Nil /\ ret.op = "MatchesDNF" /\ ret.pc = "start"
    /\ ret' = [ret EXCEPT !.pc = "done",
                          !.dnf = FilterToDNF(ret.filter),
                          !.match = MatchesDNF(FilterToDNF(ret.filter), ret.record)]
    /\ UNCHANGED << storeVars, sub, onRecordChange, leased >>

\* ------------------------------------------------------------- forwarding
maxForwards == 1

ForwardedForKey == "x-forwarded-for"

\* make(metadata.MD)
EmptyMD == [k \in {} |-> <<>>]

\* md[k] of a metadata.MD: the empty list for a key the map has not (a
\* context without metadata reads as the empty map)
MDGet(md, k) == IF k \in DOMAIN md THEN md[k] ELSE <<>>

\* the context of a handler: the metadata that came in, the metadata to go
\* out, the address of the peer ("": none)
Context(incoming, outgoing, peer) ==
    [incoming |-> incoming, outgoing |-> outgoing, peer |-> peer]

ForwardedForFromIncoming(ctx) == MDGet(ctx.incoming, ForwardedForKey)

WithOutgoingForwardedFor(ctx, forwardedFor) ==
    [ctx EXCEPT !.outgoing =
        [k \in DOMAIN ctx.outgoing \cup { ForwardedForKey } |->
            IF k = ForwardedForKey THEN forwardedFor ELSE ctx.outgoing[k]]]

\* (mutant) one forward more is let through
checkMaxForwards_over(ctx) ==
    IF Len(ForwardedForFromIncoming(ctx)) > maxForwards
    THEN "FailedPrecondition" ELSE NoError

checkMaxForwards(ctx) ==
    IF Len(ForwardedForFromIncoming(ctx)) >= maxForwards
    THEN "FailedPrecondition" ELSE NoError

\* forwardMetadata: every incoming value is appended to the outgoing map,
\* then the outgoing forwarded-for list is set to the incoming one with the
\* address of the peer, or "127.0.0.1", after it
forwardMetadata(ctx) ==
    LET copied == [ctx EXCEPT !.outgoing =
                      [k \in DOMAIN ctx.outgoing \cup DOMAIN ctx.incoming |->
                          MDGet(ctx.outgoing, k) \o MDGet(ctx.incoming, k)]]
    IN  WithOutgoingForwardedFor(copied,
            Append(ForwardedForFromIncoming(copied),
                   IF ctx.peer # "" THEN ctx.peer ELSE "127.0.0.1"))

\* a request of a client to the first of chain forwarding servers, the
\* last of which has the backend upstream; hop is the server it is at, log
\* what each forwarding server did with it
ForwardStart(kind, chain, md) ==
    [op |-> "Forward", kind |-> kind, chain |-> chain, hop |-> 1, md |-> md,
     pc |-> IF chain = 0 THEN "backend" ELSE "forward",
     log |-> <<>>, err |-> NoError]

\* the forwarding server the request is at: the check, and the call
\* upstream with the forwarded metadata; it returns what upstream returns
forward(kind, peer) ==
    /\ ret # Nil /\ ret.op = "Forward" /\ ret.pc = "forward" /\ ret.kind = kind
    /\ LET ctx == Context(ret.md, EmptyMD, peer)
           err == checkMaxForwards(ctx)
           out == forwardMetadata(ctx).outgoing
       IN  IF err # NoError
           THEN ret' = [ret EXCEPT !.pc = "done", !.err = err,
                                   !.log = Append(@, [incoming |-> ret.md, err |-> err,
                                                      sent |-> FALSE,
                                                      outgoing |-> EmptyMD])]
           ELSE ret' = [ret EXCEPT !.hop = ret.hop + 1, !.md = out,
                                   !.pc = IF ret.hop = ret.chain THEN "backend"
                                          ELSE "forward",
                                   !.log = Append(@, [incoming |-> ret.md, err |-> err,
                                                      sent |-> TRUE,
                                                      outgoing |-> out])]
    /\ UNCHANGED << storeVars, sub, onRecordChange, leased >>

forwardUnary(peer) == forward("unary", peer)

forwardStream(peer) == forward("stream", peer)

\* the backend answers the request that reached it
BackendServe ==
    /\ ret # Nil /\ ret.op = "Forward" /\ ret.pc = "backend"
    /\ ret' = [ret EXCEPT !.pc = "done"]
    /\ UNCHANGED << storeVars, sub, onRecordChange, leased >>

\* ---------------------------------------------------------- specifications
CoreKeys == { << <<1>>, <<1>> >>, << <<2>>, <<1>> >> }

CoreInputs == { r \in InputRecords : << r.type, r.id >> \in CoreKeys /\ r.data = 1 }

\* the record store under Put and Get
Next ==
    \/ Tick
    \/ \E w \in Writers : PutLock(w)
    \/ \E w \in Writers, record \in CoreInputs : PutRecord(w, record)
    \/ \E w \in Writers : WriteCommit(w)

Spec == Init /\ [][Next]_vars

\* the record store under one writer's Puts and Gets, with two payloads
GetKeys == { << <<1>>, <<1>> >> }
GetInputs == { r \in InputRecords : << r.type, r.id >> \in GetKeys }

NextGet ==
    \/ Tick
    \/ PutLock("w1")
    \/ \E record \in GetInputs : PutRecord("w1", record)
    \/ WriteCommit("w1")
    \/ \E k \in GetKeys : Get(k[1], k[2])

SpecGet == Init /\ [][NextGet]_vars

\* ----------------------------------------------------------------- claims
Busy == { w \in Writers : wr[w].pc = "locked" }

\* the record writes so far, those of the calls in progress last
Writes(w) == hist \o wr[w].entries

Increasing(s) ==
    \A i, j \in 1..Len(s) :
        i < j => /\ s[i].version < s[j].version
                 /\ s[i].modifiedAt <= s[j].modifiedAt

\* C1: the versions given to written records increase strictly in write
\* order (in input order within a batch), none is given twice, the latest
\* record version is the largest version given so far, and modified_at does
\* not decrease in version order.
C1_VersionsMonotonic ==
    /\ Increasing(hist)
    /\ \A w \in Busy : Increasing(Writes(w))
    /\ ChangeVersions(db) = { hist[i].version : i \in 1..Len(hist) }
    /\ getLatestRecordVersion(db) =
           IF hist = <<>> THEN 0 ELSE hist[Len(hist)].version
    /\ \A w \in Busy :
           getLatestRecordVersion(View(db, wr[w].batch)) =
               IF Writes(w) = <<>> THEN 0 ELSE Writes(w)[Len(Writes(w))].version
    /\ \A i \in 1..Len(hist) :
           LET r == db[recordChangeEncodeKey(hist[i].version)]
           IN  /\ r.version = hist[i].version
               /\ r.modifiedAt = hist[i].modifiedAt

\* two records of different types written by one Put and committed
C1_Witness ==
    /\ Len(hist) = 2
    /\ hist[1].batch = hist[2].batch
    /\ hist[1].type # hist[2].type

\* what readers read is db: a batch is there whole (change-log entries,
\* latest record version, records not older than the batch's) or not at all
BatchWhole(entries) ==
    \A i \in 1..Len(entries) :
        LET e == entries[i]
            k == recordEncodeKey(e.type, e.id)
        IN  /\ e.version \in ChangeVersions(db)
            /\ getLatestRecordVersion(db) >= e.version
            /\ k \in DOMAIN db => db[k].version >= e.version

BatchAbsent(entries) ==
    \A i \in 1..Len(entries) :
        LET e == entries[i]
            k == recordEncodeKey(e.type, e.id)
        IN  /\ e.version \notin ChangeVersions(db)
            /\ getLatestRecordVersion(db) < e.version
            /\ k \in DOMAIN db => db[k].version < e.version

\* C9: a reader sees all of a batch or none of it: every committed batch is
\* in the store whole, nothing of a batch in progress is, and readers get the
\* lock only when no batch is in progress.
C9_BatchAllOrNone ==
    /\ BatchWhole(hist)
    /\ \A w \in Busy : BatchAbsent(wr[w].entries)
    /\ CanRLock => Busy = {}

\* a batch of two records committed, the lock free for readers
C9_Witness ==
    /\ Len(hist) = 2
    /\ hist[1].batch = hist[2].batch
    /\ CanRLock

\* the record store under one writer's Puts and Patches of one type whose
\* capacity is set
CapInputs == { r \in InputRecords : r.type = <<1>> /\ ~r.deletedAt }

CapOptions == { Nil } \cup { << c >> : c \in Capacities }

NextCap ==
    \/ Tick
    \/ \E options \in CapOptions : SetOptions(<<1>>, options)
    \/ PutLock("w1")
    \/ PatchLock("w1")
    \/ \E record \in CapInputs : PutRecord("w1", record)
    \/ \E record \in CapInputs, maskData \in BOOLEAN :
          PatchRecord_("w1", record, maskData)
    \/ WriteCommit("w1")

SpecCap == Init /\ [][NextCap]_vars

\* the options of the record types, set and read, beside one writer's Puts
OptionsPuts == { r \in GetInputs : r.data = 1 /\ ~r.deletedAt }

NextOptions ==
    \/ Tick
    \/ \E recordType \in RecordTypes, options \in CapOptions :
          SetOptions(recordType, options)
    \/ \E recordType \in RecordTypes : GetOptions(recordType)
    \/ PutLock("w1")
    \/ \E record \in OptionsPuts : PutRecord("w1", record)
    \/ WriteCommit("w1")

SpecOptions == Init /\ [][NextOptions]_vars

\* the record store under one writer's Puts and Patches, and Gets
PatchPuts == { r \in GetInputs : r.data = 1 }

PatchInputs == { r \in GetInputs : r.data = 2 \/ r.deletedAt }

NextPatch ==
    \/ PutLock("w1")
    \/ \E record \in PatchPuts : PutRecord("w1", record)
    \/ PutCommit("w1")
    \/ PatchLock("w1")
    \/ \E record \in PatchInputs, maskData \in BOOLEAN :
          PatchRecordRet("w1", record, maskData)
    \/ PatchCommit("w1")
    \/ \E k \in GetKeys : Get(k[1], k[2])

SpecPatch == Init /\ [][NextPatch]_vars

\* one writer's Puts and Patches, failing or not, under a capacity, beside a
\* waiting Sync subscriber
FailInputs == { r \in CapInputs : r.data = 1 }

FailOptions == { Nil, << 1 >> }

NextFail ==
    \/ \E options \in FailOptions : SetOptions(<<1>>, options)
    \/ PutLock("w1")
    \/ PatchLock("w1")
    \/ \E record \in FailInputs : PutRecord("w1", record)
    \/ \E record \in FailInputs : PatchRecord_("w1", record, TRUE)
    \/ WriteCommit("w1")
    \/ \E step \in FailSteps : WriteFail("w1", step, FailInputs)
    \/ \E s \in Subscribers : SyncCall(s, <<1>>, 1, 0, TRUE)
    \/ \E s \in Subscribers : Sync(s)

SpecFail == Init /\ [][NextFail]_vars

\* the records of one type under one writer's Puts and deletions and a
\* capacity of one, and Gets of the record that is deleted and evicted
LiveKeySet == { << <<1>>, <<0, 1>> >> }

LiveInputs ==
    { r \in InputRecords :
        /\ r.type = <<1>> /\ r.data = 1
        /\ r.deletedAt => << r.type, r.id >> \in LiveKeySet }

NextLive ==
    \/ Tick
    \/ SetOptions(<<1>>, << 1 >>)
    \/ PutLock("w1")
    \/ \E record \in LiveInputs : PutRecordRet("w1", record)
    \/ PutCommitRet("w1")
    \/ \E k \in LiveKeySet : Get(k[1], k[2])

SpecLive == Init /\ [][NextLive]_vars

\* the record types under one writer's Puts and deletions, listed
ListKeys == { << <<1>>, <<1>> >>, << <<1>>, <<0, 1>> >>, << <<1, 1>>, <<1>> >> }

ListInputs == { Record(k[1], k[2], 1, deleted) : k \in ListKeys, deleted \in BOOLEAN }

NextList ==
    \/ PutLock("w1")
    \/ \E record \in ListInputs : PutRecord("w1", record)
    \/ WriteCommit("w1")
    \/ ListTypes

SpecList == Init /\ [][NextList]_vars

\* one writer's Puts of records well formed and malformed: an empty type, an
\* empty id, a type holding the separator byte
MalformedKeys == { << <<>>, <<1>> >>, << <<1>>, <<>> >>, << <<1, 0, 1>>, <<1>> >> }

WellFormedKeys == { << <<1>>, <<1>> >>, << <<1>>, <<1, 0, 1>> >> }

MalformedInputs ==
    { Record(k[1], k[2], 1, FALSE) : k \in MalformedKeys \cup WellFormedKeys }

NextMalformed ==
    \/ PutLock("w1")
    \/ \E record \in MalformedInputs : PutRecord("w1", record)
    \/ WriteCommit("w1")
    \/ \E k \in MalformedKeys \cup WellFormedKeys : Get(k[1], k[2])

SpecMalformed == Init /\ [][NextMalformed]_vars

\* the reconciliation of every pair of collections over three keys and two
\* payloads
ReconcileKeys == { << <<1>>, <<2>> >>, << <<1, 1>>, <<1>> >>, << <<2>>, <<1>> >> }

Collections ==
    { Items({ [type |-> k[1], id |-> k[2], data |-> f[k]] :
                 k \in { j \in ReconcileKeys : f[j] # 0 } }) :
        f \in [ReconcileKeys -> { 0 } \cup DataValues] }

InitReconcile ==
    /\ InitStore
    /\ ret \in { ReconcileStart(original, desired) :
                    original \in Collections, desired \in Collections }

NextReconcile == ReconcileLoop

SpecReconcile == InitReconcile /\ [][NextReconcile]_vars

\* the filters of two levels of And and Or over two Equals, with at most
\* MaxSize nodes below the root
MaxSize == 4

FilterAtoms == { EqualsFilterExpression(<< 1 >>, 2), EqualsFilterExpression(<< 2 >>, 1) }

\* the filters of n nodes that may stand below the root
ChildrenOfSize(n) ==
    (IF n = 1 THEN FilterAtoms ELSE {})
    \cup { AndFilterExpression(cs) : cs \in [1..(n - 1) -> FilterAtoms] }
    \cup { OrFilterExpression(cs) : cs \in [1..(n - 1) -> FilterAtoms] }

\* the lists of children of n nodes in all
RECURSIVE ListsOfSize(_)
ListsOfSize(n) ==
    IF n = 0 THEN { <<>> }
    ELSE UNION { { << c >> \o cs : c \in ChildrenOfSize(k), cs \in ListsOfSize(n - k) } :
                 k \in 1..n }

Filters ==
    FilterAtoms
    \cup UNION { { AndFilterExpression(cs) : cs \in ListsOfSize(n) }
                 \cup { OrFilterExpression(cs) : cs \in ListsOfSize(n) } : n \in 0..MaxSize }

InitFilter ==
    /\ InitStore
    /\ ret \in { FilterStart(filter) : filter \in Filters }

NextFilter ==
    \/ Convert
    \/ ConvertRearranged

SpecFilter == InitFilter /\ [][NextFilter]_vars

\* the query objects of at most MaxKeys keys and list elements in all, over
\* the keys QueryKeys and one string
MaxKeys == 5

QueryKeys == << "$or", "a", "b" >>

\* the values that hold n keys and list elements, the lists of values that
\* hold n with their own elements, and the fields under keys from the
\* from-th on that hold n with their own keys
RECURSIVE ValuesOfSize(_)
RECURSIVE ItemsOfSize(_)
RECURSIVE FieldsOfSize(_, _)
ValuesOfSize(n) ==
    (IF n = 0 THEN { StringValue("1") } ELSE {})
    \cup { ListValue(items) : items \in ItemsOfSize(n) }
    \cup { StructValue(fields) : fields \in FieldsOfSize(n, 1) }

ItemsOfSize(n) ==
    IF n = 0 THEN { <<>> }
    ELSE UNION { { << v >> \o items : v \in ValuesOfSize(m),
                                      items \in ItemsOfSize(n - 1 - m) } :
                 m \in 0..(n - 1) }

FieldsOfSize(n, from) ==
    IF n = 0 THEN { <<>> }
    ELSE UNION { { (QueryKeys[k] :> v) @@ fields :
                     v \in ValuesOfSize(m),
                     fields \in FieldsOfSize(n - 1 - m, k + 1) } :
                 k \in from..Len(QueryKeys), m \in 0..(n - 1) }

InitFromStruct ==
    /\ InitStore
    /\ ret \in { FromStructStart(s) : s \in UNION { FieldsOfSize(n, 1) : n \in 0..MaxKeys } }

NextFromStruct == FilterExpressionFromStruct

SpecFromStruct == InitFromStruct /\ [][NextFromStruct]_vars

\* the texts of addresses and prefixes of both families, two names, the
\* empty text and a text that is neither
AddrTexts == { << family >> \o bits : family \in { 4, 6 }, bits \in [1..AddrBits -> { 0, 1 }] }

PrefixTexts == { addr \o << 47, len >> : addr \in AddrTexts, len \in 0..AddrBits }

NameTexts == { << 97 >>, << 98 >> }

MatchValues == AddrTexts \cup PrefixTexts \cup NameTexts \cup { <<>>, << 4, 47 >> }

MatchPaths ==
    { << "type" >>, << "id" >>, << "$index" >>, <<>>, << "data" >>,
      << "type", "id" >>, << "$index", "cidr" >> }

\* records of one name as type or id, with each text or nothing as cidr
MatchRecords ==
    { MatchRecord(name, << 98 >>, cidr) : name \in NameTexts, cidr \in MatchValues \cup { Nil } }
    \cup { MatchRecord(<< 98 >>, name, Nil) : name \in NameTexts }

InitMatch ==
    /\ InitStore
    /\ ret \in { MatchStart(EqualsFilterExpression(fields, value), record) :
                    fields \in MatchPaths, value \in MatchValues, record \in MatchRecords }

NextMatch == Match

SpecMatch == InitMatch /\ [][NextMatch]_vars

\* the reconciliation of every pair of inputs of at most MaxItems items:
\* records over two keys in ascending order, and errors at any place
MaxItems == 2

InputItems ==
    { RecordItem([type |-> <<1>>, id |-> id, data |-> data]) :
         id \in { <<1>>, <<2>> }, data \in { 1, 2 } }
    \cup { ErrorItem("e1"), ErrorItem("e2") }

Inputs ==
    { q \in UNION { [1..n -> InputItems] : n \in 0..MaxItems } :
        \A i, j \in 1..Len(q) :
            (i < j /\ q[i].err = "nil" /\ q[j].err = "nil")
                => CompareRecordsByTypeAndID(q[i].record, q[j].record) < 0 }

InitReconcileErrors ==
    /\ InitStore
    /\ ret \in { ReconcilePulled(original, desired) :
                    original \in Inputs, desired \in Inputs }

NextReconcileErrors == ReconcileSortedRecordCollections

SpecReconcileErrors == InitReconcileErrors /\ [][NextReconcileErrors]_vars

\* index keys of record types without a zero byte, modified_at times of
\* one to three bytes of microseconds, and ids with and without zero bytes
InitIndexKey ==
    /\ InitStore
    /\ ret \in { IndexKeyStart(recordType, modifiedAt, recordID) :
                    recordType \in { << 1 >>, << 2 >>, << 1, 1 >>, << 116, 121 >> },
                    modifiedAt \in { 0, 1, 255, 256, 70000 },
                    recordID \in { <<>>, << 1 >>, << 0, 1 >>, << 1, 0 >>, << 105, 100 >> } }

NextIndexKey == IndexKeyRoundTrip

SpecIndexKey == InitIndexKey /\ [][NextIndexKey]_vars

\* the same filters and no filter, each matched against the records of
\* two types and two ids
InitMatchDNF ==
    /\ InitStore
    /\ ret \in { MatchDNFStart(filter, MatchRecord(type, id, Nil)) :
                    filter \in Filters \cup { Nil },
                    type \in NameTexts, id \in NameTexts }

NextMatchDNF == MatchDNF

SpecMatchDNF == InitMatchDNF /\ [][NextMatchDNF]_vars

\* requests through at most MaxChain forwarding servers, the client
\* sending at most MaxForwardedFor forwarded-for addresses of its own
MaxChain == 2
MaxForwardedFor == 2

ForwardedForLists == UNION { [1..n -> { "10.0.0.1", "10.0.0.2" }] : n \in 0..MaxForwardedFor }

ClientMetadata ==
    { EmptyMD, "authorization" :> << "jwt" >> }
    \cup { ForwardedForKey :> l : l \in ForwardedForLists }
    \cup { (ForwardedForKey :> l) @@ ("authorization" :> << "jwt" >>) : l \in ForwardedForLists }

Peers == { "", "10.0.0.9" }

InitForward ==
    /\ InitStore
    /\ ret \in { ForwardStart(kind, chain, md) :
                    kind \in { "unary", "stream" }, chain \in 0..MaxChain,
                    md \in ClientMetadata }

NextForward ==
    \/ \E peer \in Peers : forwardUnary(peer)
    \/ \E peer \in Peers : forwardStream(peer)
    \/ BackendServe

SpecForward == InitForward /\ [][NextForward]_vars

\* the records of one type and their index under one writer's Puts of two
\* records, deletions and Patches of one of them, and a capacity of one
IndexInputs ==
    { r \in InputRecords : r.type = <<1>> /\ r.data = 1 /\ (r.deletedAt => r.id = <<1>>) }

IndexPatches == { r \in IndexInputs : r.id = <<1>> /\ ~r.deletedAt }

NextIndex ==
    \/ Tick
    \/ SetOptions(<<1>>, << 1 >>)
    \/ PutLock("w1")
    \/ PatchLock("w1")
    \/ \E record \in IndexInputs : PutRecord("w1", record)
    \/ \E record \in IndexPatches : PatchRecord_("w1", record, TRUE)
    \/ WriteCommit("w1")

SpecIndex == Init /\ [][NextIndex]_vars

\* at most MaxSeqs sequences of at most MaxLen of two values
MaxSeqs == 3
MaxLen == 2

ProductSeqs == UNION { [1..n -> { 1, 2 }] : n \in 0..MaxLen }

InitProduct ==
    /\ InitStore
    /\ ret \in { ProductStart(seqs) :
                    seqs \in UNION { [1..n -> ProductSeqs] : n \in 0..MaxSeqs } }

NextProduct == ProductCollect

SpecProduct == InitProduct /\ [][NextProduct]_vars

\* at most MaxSeqs ascending sequences without repeats of three numbers,
\* united under either comparator; the call runs whenever it can
AscendingSeqs ==
    { q \in UNION { [1..n -> 1..3] : n \in 0..3 } :
        \A i \in 1..(Len(q) - 1) : q[i] < q[i + 1] }

InitUnion ==
    /\ InitStore
    /\ ret \in { SortedUnionStart(kind, seqs) :
                    kind \in { "cmp.Compare", "difference" },
                    seqs \in UNION { [1..n -> AscendingSeqs] : n \in 0..MaxSeqs } }

NextUnion == SortedUnionCollect

SpecUnion == InitUnion /\ [][NextUnion]_vars /\ WF_vars(NextUnion)

\* a Watcher over files that change on disk in any way, watched and
\* dropped at any time, polled MaxPolls times, with its rechecks
InitWatcher ==
    /\ InitStore
    /\ ret \in { NewWatcher(fs) : fs \in [Paths -> Files] }

NextWatcher ==
    \/ \E p \in Paths, file \in Files : FileChange(p, file)
    \/ \E filePaths \in SUBSET Paths : WatcherWatch(filePaths)
    \/ WatcherCheck
    \/ \E p \in Paths : waitAndRecheck(p)

SpecWatcher == InitWatcher /\ [][NextWatcher]_vars

\* the record store under one writer's Puts and Patches of two record
\* types, the capacity of the first of them set
FrameInputs == { r \in InputRecords : r.id = <<1>> /\ r.data = 1 /\ ~r.deletedAt }

NextFrame ==
    \/ Tick
    \/ \E options \in CapOptions : SetOptions(<<1>>, options)
    \/ PutLock("w1")
    \/ PatchLock("w1")
    \/ \E record \in FrameInputs : PutRecord("w1", record)
    \/ \E record \in FrameInputs, maskData \in BOOLEAN :
          PatchRecord_("w1", record, maskData)
    \/ WriteCommit("w1")

SpecFrame == Init /\ [][NextFrame]_vars

\* the store under one writer's Puts, the options of both record types
\* set and removed, and one subscriber that waits for changes
NextSetOptions ==
    \/ \E recordType \in RecordTypes, options \in CapOptions :
          SetOptions(recordType, options)
    \/ PutLock("w1")
    \/ \E record \in FrameInputs : PutRecord("w1", record)
    \/ WriteCommit("w1")
    \/ \E s \in Subscribers : SyncCall(s, <<1>>, 1, 0, TRUE)
    \/ \E s \in Subscribers : Cancel(s)
    \/ \E s \in Subscribers : Sync(s)

SpecSetOptions == Init /\ [][NextSetOptions]_vars

\* the store under one writer's Puts and one Sync subscriber
SyncInputs == { r \in InputRecords : r.id = <<1>> /\ r.data = 1 /\ ~r.deletedAt }

ServerVersions == { 1, 2 }

NextSync ==
    \/ PutLock("w1")
    \/ \E record \in SyncInputs : PutRecord("w1", record)
    \/ WriteCommit("w1")
    \/ \E s \in Subscribers, recordType \in RecordTypes,
          serverVersion \in ServerVersions, recordVersion \in 0..1,
          wait \in BOOLEAN :
          SyncCall(s, recordType, serverVersion, recordVersion, wait)
    \/ \E s \in Subscribers : Cancel(s)
    \/ \E s \in Subscribers : Sync(s)

SpecSync == Init /\ [][NextSync]_vars

\* the same, every started iterator running on: its goroutine is scheduled
\* whenever it has a step to take
SpecSyncLive == SpecSync /\ \A s \in Subscribers : WF_vars(Sync(s))

\* the same, the listing reading the change log
NextFeed ==
    \/ PutLock("w1")
    \/ \E record \in SyncInputs : PutRecord("w1", record)
    \/ WriteCommit("w1")
    \/ \E s \in Subscribers, recordType \in RecordTypes,
          serverVersion \in ServerVersions, recordVersion \in 0..1,
          wait \in BOOLEAN :
          SyncCall(s, recordType, serverVersion, recordVersion, wait)
    \/ \E s \in Subscribers : Cancel(s)
    \/ \E s \in Subscribers : SyncFeed(s)

SpecFeed == Init /\ [][NextFeed]_vars

\* one writer's Puts and at most MaxIterations Sync iterators, one after
\* the other, of a listing that reads the change log or fails
MaxIterations == 2

NextHandles ==
    \/ PutLock("w1")
    \/ \E record \in SyncInputs : PutRecord("w1", record)
    \/ WriteCommit("w1")
    \/ \E s \in Subscribers, serverVersion \in ServerVersions, wait \in BOOLEAN :
          SyncCall(s, <<1>>, serverVersion, 0, wait)
    \/ \E s \in Subscribers : Cancel(s)
    \/ \E s \in Subscribers : SyncHandles(s)
    \/ \E s \in Subscribers : SyncAgain(s, MaxIterations)

SpecHandles == Init /\ [][NextHandles]_vars

\* the store under one writer's Puts and Lease calls
NextLease ==
    \/ Tick
    \/ PutLock("w1")
    \/ \E record \in SyncInputs : PutRecord("w1", record)
    \/ WriteCommit("w1")
    \/ \E leaseName \in LeaseNames, leaseID \in LeaseIDs, ttl \in 0..MaxTTL :
          Lease(leaseName, leaseID, ttl)

SpecLease == Init /\ [][NextLease]_vars

\* the same over the lease key space as its layout describes it, the Puts
\* writing one record
LeasePuts == { r \in SyncInputs : r.type = <<1>> }

NextLeaseStored ==
    \/ Tick
    \/ PutLock("w1")
    \/ \E record \in LeasePuts : PutRecord("w1", record)
    \/ WriteCommit("w1")
    \/ \E leaseName \in LeaseNames, leaseID \in LeaseIDs, ttl \in 0..MaxTTL :
          LeaseStored(leaseName, leaseID, ttl)

SpecLeaseStored == Init /\ [][NextLeaseStored]_vars

\* the writes of the last committed Put to the (type, id) of the last Get
LastWrites ==
    { i \in 1..Len(hist) : /\ hist[i].batch = lastPut.base
                           /\ hist[i].type = got.type
                           /\ hist[i].id = got.id }

Returned(i) ==
    /\ got.res # Nil
    /\ got.res[1].type = hist[i].type
    /\ got.res[1].id = hist[i].id
    /\ got.res[1].data = hist[i].data
    /\ got.res[1].version = hist[i].version
    /\ got.res[1].modifiedAt = hist[i].modifiedAt

\* C8 as stated: Get after a Put returns every record the Put wrote, with
\* its data and the version and modified_at the Put gave it.
C8_GetReturnsWritten ==
    (got # Nil /\ lastPut.op = "put") => \A i \in LastWrites : Returned(i)

\* the write is the last one of the batch to its (type, id), and the batch
\* does not remove the record afterwards
Survives(i) ==
    /\ \A j \in LastWrites : j <= i
    /\ recordEncodeKey(got.type, got.id) \notin lastPut.gone

\* C8 amended: Get after a Put returns the record the Put wrote, when the
\* same Put neither wrote that (type, id) again nor removed it afterwards.
C8_GetReturnsLastWrite ==
    (got # Nil /\ lastPut.op = "put") =>
        \A i \in LastWrites : Survives(i) => Returned(i)

\* a Get of a record the last Put wrote twice
C8_Witness ==
    /\ got # Nil /\ lastPut.op = "put"
    /\ \E i, j \in LastWrites : i < j /\ Survives(j) /\ hist[i].data # hist[j].data

\* C5: after a Put or Patch that touched a type whose capacity K is set, at
\* most K records of the type are live, and no record the call evicted is
\* newer than a record of the type it kept.
C5_CapacityInvariant ==
    \A recordType \in lastPut.capped :
        capacityOf(db, recordType) # Nil =>
            /\ Cardinality(LiveOfType(db, recordType)) <= capacityOf(db, recordType)[1]
            /\ \A e \in lastPut.evicted, k \in LiveOfType(db, recordType) :
                   e.type = recordType => e.modifiedAt <= db[k].modifiedAt

\* the versions of the first n committed writes that are of a record type and
\* after a version, oldest first
RECURSIVE WrittenAfter(_, _, _)
WrittenAfter(n, recordType, recordVersion) ==
    IF n = 0 THEN <<>>
    ELSE WrittenAfter(n - 1, recordType, recordVersion)
         \o (IF hist[n].type = recordType /\ hist[n].version > recordVersion
             THEN << hist[n].version >> ELSE <<>>)

\* C2: a subscriber blocked in Sync(T, sv, latest, wait=true) is woken by the
\* commit of a Put of a new type-T record: whenever it is blocked in the
\* select, not cancelled, and a type-T write after its version was committed
\* since its last listing (so after it bound its handle), a wake is pending
\* on its handle.
C2_PutWakesSubscriber ==
    \A s \in Subscribers :
        (/\ sub[s].pc = "select"
         /\ ~sub[s].ctxDone
         /\ WrittenAfter(Len(hist), sub[s].recordType, sub[s].recordVersion)
                # WrittenAfter(sub[s].seen, sub[s].recordType, sub[s].recordVersion))
        => onRecordChange[s]

\* C3: Sync(T, current server version, v_i, wait=false) that runs to its end
\* has yielded exactly the type-T change-log records after v_i, each once, in
\* ascending version order.
C3_SyncResumption ==
    \A s \in Subscribers :
        (sub[s].pc = "done" /\ sub[s].result = "end" /\ ~sub[s].wait)
        => sub[s].delivered =
               WrittenAfter(sub[s].seen, sub[s].recordType, sub[s].recordVersion)

C10_LeaseMutualExclusion ==
    leased.call # Nil =>
        LET before == leased.call.before
            other  == /\ before # Nil
                      /\ before.name = leased.call.name
                      /\ before.id # leased.call.id
        IN  /\ (other /\ leased.call.at < before.expiresAt)
                   => leased.call.outcome = "false"
            /\ (~other \/ before.expiresAt < leased.call.at)
                   => leased.call.outcome = "true"

C13_InvalidServerVersion ==
    \A s \in Subscribers :
        sub[s].pc # "idle" =>
            IF sub[s].serverVersion # getServerVersion(db)
            THEN /\ sub[s].pc = "done"
                 /\ sub[s].result = "ErrInvalidServerVersion"
                 /\ sub[s].delivered = <<>>
                 /\ s \notin DOMAIN onRecordChange
            ELSE sub[s].result # "ErrInvalidServerVersion"

\* a waiting Sync refused for its server version while the change log holds
\* a record of its type
C13_Witness ==
    \E s \in Subscribers :
        /\ sub[s].result = "ErrInvalidServerVersion"
        /\ sub[s].wait
        /\ WrittenAfter(Len(hist), sub[s].recordType, sub[s].recordVersion) # <<>>

\* C14: a waiting Sync that is blocked in the select when its context is
\* cancelled goes on to yield the cancellation cause and to terminate, and a
\* terminated iterator yields nothing more.
C14_CancelEndsSync ==
    /\ \A s \in Subscribers :
          (sub[s].pc = "select" /\ sub[s].ctxDone)
              ~> (sub[s].pc = "done" /\ sub[s].result = "canceled")
    /\ [][\A s \in Subscribers : sub[s].pc = "done" => sub'[s] = sub[s]]_vars

\* a waiting Sync ended by the cancellation of its context
C14_Witness ==
    \E s \in Subscribers :
        /\ sub[s].pc = "done"
        /\ sub[s].result = "canceled"
        /\ sub[s].wait
        /\ s \notin DOMAIN onRecordChange

\* C15: GetOptions returns no error, and returns the options last stored for
\* the record type, or empty options when no entry is stored for it.
C15_GetOptionsNeverFails ==
    (ret # Nil /\ ret.op = "GetOptions") =>
        /\ ret.err = NoError
        /\ ~ret.isNil
        /\ ret.options = (IF ret.stored = Nil THEN Nil ELSE ret.stored[1])

\* the inputs of the Patch call that found a record
Matched == SelectSeq(ret.inputs, LAMBDA input : input.existed)

\* C16: an input of Patch whose (type, id) has no record adds nothing to the
\* batch (no record, no version), and the patched list holds exactly the
\* inputs that found a record, in their order.
C16_PatchSkipsMissing ==
    (ret # Nil /\ ret.op = "Patch") =>
        /\ \A i \in 1..Len(ret.inputs) :
              ~ret.inputs[i].existed => ret.inputs[i].ops = 0
        /\ Len(ret.patched) = Len(Matched)
        /\ \A i \in 1..Len(Matched) :
              /\ i <= Len(ret.patched)
              /\ ret.patched[i].type = Matched[i].record.type
              /\ ret.patched[i].id = Matched[i].record.id

\* the (type, id) of the inputs of the returned Patch call that carried
\* deleted_at and found a record
PatchedDeleted ==
    { << ret.inputs[i].record.type, ret.inputs[i].record.id >> :
        i \in { j \in 1..Len(ret.inputs) :
                  ret.inputs[j].record.deletedAt /\ ret.inputs[j].existed } }

\* a Patch call has returned and no call has committed since
PatchReturned ==
    /\ ret # Nil /\ ret.op = "Patch" /\ ret.done
    /\ lastPut.op = "patch"

C19_GetNotFoundIffNotLive ==
    got # Nil =>
        /\ got.res = Nil <=> << got.type, got.id >> \notin PutHistory.live
        /\ got.res # Nil => ~got.res[1].deletedAt

\* a Get of a record that was live until the last Put evicted it
C19_Witness ==
    /\ got # Nil
    /\ got.res = Nil
    /\ << got.type, got.id >> \in PutHistory.evicted

\* C20: ListTypes returns the record types that have a record, each once, in
\* ascending order; a type whose records were all deleted is not among them.
C20_ListTypesSortedUnique ==
    (ret # Nil /\ ret.op = "ListTypes") =>
        /\ { ret.recordTypes[i] : i \in 1..Len(ret.recordTypes) } = ret.types
        /\ \A i \in 1..(Len(ret.recordTypes) - 1) :
              BytesLess(ret.recordTypes[i], ret.recordTypes[i + 1])

\* a listing of some type while a type that was put has no record left
C20_Witness ==
    /\ ret # Nil /\ ret.op = "ListTypes"
    /\ ret.recordTypes # <<>>
    /\ \E i \in 1..Len(hist) : hist[i].type \notin ret.types

\* a record with an empty type, an empty id or the separator in its type
Malformed(record) ==
    \/ record.type = <<>>
    \/ record.id = <<>>
    \/ \E i \in 1..Len(record.type) : record.type[i] = 0

\* C21: a Put of a malformed record writes nothing, so no committed write is
\* of a malformed record, and no two committed writes of distinct (type, id)
\* went to the same record key.
C21_MalformedRejected ==
    /\ \A i \in 1..Len(hist) : ~Malformed(hist[i])
    /\ \A i, j \in 1..Len(hist) :
          recordEncodeKey(hist[i].type, hist[i].id)
              = recordEncodeKey(hist[j].type, hist[j].id)
          => (hist[i].type = hist[j].type /\ hist[i].id = hist[j].id)

\* the (type, id) a change is about
ChangeKey(change) ==
    IF change.Original # Nil
    THEN << change.Original.type, change.Original.id >>
    ELSE << change.Desired.type, change.Desired.id >>

\* the record of a collection under a key, Nil when it has none
RecordAt(collection, k) ==
    LET at == { i \in 1..Len(collection) :
                  << collection[i].type, collection[i].id >> = k }
    IN  IF at = {} THEN Nil ELSE collection[CHOOSE i \in at : TRUE]

\* the change the two collections call for under a key, Nil when none
ChangeFor(k) ==
    LET before == RecordAt(ret.A, k)
        after  == RecordAt(ret.B, k)
    IN  IF before = after THEN Nil ELSE RecordChange(before, after)

\* ascending in (type, id)
KeyLess(k, j) == BytesLess(k[1], j[1]) \/ (k[1] = j[1] /\ BytesLess(k[2], j[2]))

Reconciled == ret # Nil /\ ret.op = "Reconcile" /\ ret.pc = "done"

\* C22: a reconciliation run to its end has emitted, in ascending (type, id)
\* order, one change for each key whose record differs between the two
\* collections, with the record before and the record after, and none for
\* the other keys; the changes applied to the original give the desired.
C22_ReconcileExact ==
    Reconciled =>
        /\ \A i \in 1..(Len(ret.changes) - 1) :
              KeyLess(ChangeKey(ret.changes[i]), ChangeKey(ret.changes[i + 1]))
        /\ \A i \in 1..Len(ret.changes) :
              ret.changes[i] = ChangeFor(ChangeKey(ret.changes[i]))
        /\ \A k \in ReconcileKeys :
              ChangeFor(k) # Nil =>
                  \E i \in 1..Len(ret.changes) : ChangeKey(ret.changes[i]) = k
        /\ ( { ret.A[i] : i \in 1..Len(ret.A) }
               \ { ret.changes[i].Original : i \in 1..Len(ret.changes) } )
             \cup ( { ret.changes[i].Desired : i \in 1..Len(ret.changes) } \ { Nil } )
           = { ret.B[i] : i \in 1..Len(ret.B) }

\* a reconciliation that removed a record, added one and changed one
C22_Witness ==
    /\ Reconciled
    /\ \E i, j, k \in 1..Len(ret.changes) :
          /\ ret.changes[i].Desired = Nil
          /\ ret.changes[j].Original = Nil
          /\ ret.changes[k].Original # Nil /\ ret.changes[k].Desired # Nil

Converted == ret # Nil /\ ret.op = "FilterToDNF" /\ ret.pc = "done"

\* sorted by (path, value) without repeats
Canonical(dnf) ==
    /\ \A i \in 1..Len(dnf) : \A j \in 1..(Len(dnf[i]) - 1) :
          cmpEqualsFilterExpression(dnf[i][j], dnf[i][j + 1]) < 0
    /\ \A i \in 1..(Len(dnf) - 1) : CompareFunc(dnf[i], dnf[i + 1]) < 0

\* C23: a filter and any filter got from it by changing the nesting of And
\* in And and of Or in Or and the order of children have the same DNF
\* string; every conjunct of the DNF is sorted by (path, value) without
\* repeated terms and the conjuncts are sorted without repeats.
C23_DNFCanonical ==
    Converted => (ret.otherString = ret.string /\ Canonical(ret.dnf))

\* an And over an Or was rearranged and converted again, its DNF having
\* several conjuncts, one of them of several terms
C23_Witness ==
    /\ Converted
    /\ ret.filter.kind = "and"
    /\ ret.other # ret.filter
    /\ Len(ret.dnf) > 1
    /\ \E i \in 1..Len(ret.dnf) : Len(ret.dnf[i]) > 1

\* the terms of a conjunct and the conjuncts of a DNF, as sets
Terms(x) == { x[j] : j \in 1..Len(x) }

Conjuncts(dnf) == { Terms(dnf[i]) : i \in 1..Len(dnf) }

\* the cartesian product of a list of DNFs: one conjunct chosen of each,
\* the chosen conjuncts concatenated
RECURSIVE CartesianProduct(_)
CartesianProduct(dnfs) ==
    IF dnfs = <<>> THEN { <<>> }
    ELSE { Head(dnfs)[i] \o xs :
             i \in 1..Len(Head(dnfs)), xs \in CartesianProduct(Tail(dnfs)) }

\* C24: the DNF of And(c1, ..., cn) is the cartesian product of the DNFs of
\* c1, ..., cn with the chosen conjuncts concatenated, for every list of
\* children: a child of empty DNF makes the product empty.
C24_AndIsProduct ==
    (Converted /\ ret.filter.kind = "and")
        => Conjuncts(ret.dnf)
             = { Terms(xs) : xs \in CartesianProduct(
                   [i \in 1..Len(ret.filter.children) |->
                      FilterToDNF(ret.filter.children[i])]) }

Parsed ==
    /\ ret # Nil /\ ret.op = "FilterExpressionFromStruct"
    /\ ret.pc = "done" /\ ret.err = NoError

\* the paths of the values of a query object, in the order of the keys: a
\* key that is no operator is added to the path, an operator is not
RECURSIVE ValuePaths(_, _)
ValuePaths(path, v) ==
    IF v.kind = "string" THEN << path >>
    ELSE IF v.kind = "list"
    THEN Concat([i \in 1..Len(v.items) |-> ValuePaths(path, v.items[i])])
    ELSE LET fs == SortStrings(DOMAIN v.fields)
         IN  Concat([i \in 1..Len(fs) |->
                       ValuePaths(IF fs[i] \in { "$and", "$eq", "$or" } THEN path
                                  ELSE Append(path, fs[i]),
                                  v.fields[fs[i]])])

\* the paths of the Equals nodes of an expression, from left to right
RECURSIVE EqualsPaths(_)
EqualsPaths(expr) ==
    IF expr.kind = "equals" THEN << expr.Fields >>
    ELSE Concat([i \in 1..Len(expr.children) |-> EqualsPaths(expr.children[i])])

\* C25: the Equals nodes of the expression built from a query object have,
\* from left to right, the paths of the values of the object in the order
\* of its keys: each path is the list of the keys that are no operators
\* from the root down to the value, whatever the depth and the number of
\* sibling keys.
C25_PathsAreKeys ==
    Parsed => EqualsPaths(ret.expr) = ValuePaths(<<>>, StructValue(ret.s))

MatchedRecord == ret # Nil /\ ret.op = "MatchesRecord" /\ ret.pc = "done"

\* the addresses a prefix stands for: those with its leading bits
Cover(prefix) ==
    { bits \in [1..AddrBits -> { 0, 1 }] :
        \A i \in 1..prefix.len : bits[i] = prefix.bits[i] }

\* the queried text is an address inside the prefix, or a prefix of the
\* same family all of whose addresses are inside it
Inside(text, prefix) ==
    \/ /\ ParseAddr(text) # Nil
       /\ ParseAddr(text).family = prefix.family
       /\ ParseAddr(text).bits \in Cover(prefix)
    \/ /\ ParsePrefix(text) # Nil
       /\ ParsePrefix(text).family = prefix.family
       /\ Cover(ParsePrefix(text)) \subseteq Cover(prefix)

\* C26: a record whose $index.cidr is a prefix P matches an Equals on
\* ["$index"] exactly when the value is an address inside P or a prefix
\* contained in or equal to P; a record without $index.cidr matches no
\* $index query.
C26_IndexMatchesInside ==
    (MatchedRecord /\ ret.f.Fields = << "$index" >>)
        => /\ ret.err = NoError
           /\ (ret.record.cidr # Nil /\ ParsePrefix(ret.record.cidr) # Nil)
                => (ret.match <=> Inside(ret.f.Value, ParsePrefix(ret.record.cidr)))
           /\ ret.record.cidr = Nil => ~ret.match

\* a prefix written with bits beyond its length matched a prefix inside it
C26_Witness ==
    /\ MatchedRecord /\ ret.f.Fields = << "$index" >>
    /\ ret.record.cidr # Nil /\ ParsePrefix(ret.record.cidr) # Nil
    /\ ParsePrefix(ret.record.cidr) # Masked(ParsePrefix(ret.record.cidr))
    /\ ParsePrefix(ret.f.Value) # Nil
    /\ ParsePrefix(ret.f.Value).len > ParsePrefix(ret.record.cidr).len
    /\ ret.match

\* C27: an Equals whose path is not exactly ["type"], ["id"] or ["$index"]
\* fails with the unsupported-filter error and no match; on ["type"] and
\* ["id"] it matches exactly when the type, respectively the id, of the
\* record equals the value.
C27_UnsupportedPathFails ==
    MatchedRecord
        => /\ ret.f.Fields \notin { << "type" >>, << "id" >>, << "$index" >> }
                => (ret.err # NoError /\ ~ret.match)
           /\ ret.f.Fields = << "type" >>
                => (ret.err = NoError /\ (ret.match <=> ret.record.type = ret.f.Value))
           /\ ret.f.Fields = << "id" >>
                => (ret.err = NoError /\ (ret.match <=> ret.record.id = ret.f.Value))

\* a path of two names, the first of them "type", was refused for a record
\* whose type is the value
C27_Witness ==
    /\ MatchedRecord
    /\ ret.f.Fields = << "type", "id" >>
    /\ ret.record.type = ret.f.Value
    /\ ret.err # NoError

Forwarding == ret # Nil /\ ret.op = "Forward"

\* C28: a forwarding server rejects with FailedPrecondition, sending
\* nothing upstream, every unary or streaming request that comes in with a
\* forwarded-for list of one address or more, and forwards a request with
\* an empty list with one address added to the outgoing list; a request
\* through two forwarding servers ends with FailedPrecondition, one through
\* a single forwarding server reaches the backend.
C28_ForwardedOnce ==
    Forwarding
        => /\ \A i \in 1..Len(ret.log) :
                LET e == ret.log[i]
                IN  IF Len(MDGet(e.incoming, ForwardedForKey)) >= 1
                    THEN e.err = "FailedPrecondition" /\ ~e.sent
                    ELSE /\ e.err = NoError /\ e.sent
                         /\ Len(MDGet(e.outgoing, ForwardedForKey)) = 1
           /\ (ret.pc = "done" /\ ret.chain >= 2) => ret.err = "FailedPrecondition"
           /\ (ret.pc = "done" /\ ret.chain = 1 /\ Len(ret.log) = 1
                  /\ MDGet(ret.log[1].incoming, ForwardedForKey) = <<>>)
                => (ret.err = NoError /\ ret.hop = 2)

\* a streaming request was forwarded by the first of two forwarding
\* servers and rejected by the second
C28_Witness ==
    /\ Forwarding /\ ret.pc = "done" /\ ret.kind = "stream"
    /\ ret.chain = 2 /\ Len(ret.log) = 2
    /\ ret.log[1].sent
    /\ ret.log[2].err = "FailedPrecondition"

\* the keys of the modified-at index entries of r
IndexEntries(r) == { k \in DOMAIN r : k[1] = prefixRecordIndexByModifiedAtKeySpace }

\* C29: after every completed Put, Patch or eviction the index entries are
\* exactly those of the live records, one for each, under its type, its
\* modified_at and its id: a deleted or evicted record and a modified_at
\* that was superseded have none.
C29_IndexAgreesWithRecords ==
    IndexEntries(db)
        = { indexEncodeKey(db[k].type, db[k].modifiedAt, db[k].id) : k \in LiveKeys(db) }

\* a write that evicted a record was committed, and the record that is
\* left has its index entry
C29_Witness ==
    /\ mu = "free" /\ lastPut # Nil /\ lastPut.evicted # {}
    /\ LiveKeys(db) # {} /\ IndexEntries(db) # {}

C31_NoWaitTerminates ==
    \A s \in Subscribers :
        (<>[](mu = "free"))
            => ((sub[s].pc \in { "bind", "list", "yield" } /\ ~sub[s].wait)
                  ~> sub[s].pc = "done")

\* a Sync with wait=false came to its end while the change log held a
\* record of its type after its record version
C31_Witness ==
    \E s \in Subscribers :
        /\ sub[s].pc = "done" /\ sub[s].result = "end" /\ ~sub[s].wait
        /\ WrittenAfter(Len(hist), sub[s].recordType, sub[s].recordVersion) # <<>>

\* the sequences that have an element, in their order
NonEmpty(seqs) == SelectSeq(seqs, LAMBDA x : x # <<>>)

\* the number of combinations of the sequences from the i-th on
RECURSIVE Combinations(_, _)
Combinations(seqs, i) ==
    IF i > Len(seqs) THEN 1 ELSE Len(seqs[i]) * Combinations(seqs, i + 1)

\* the k-th combination, counted from 0, in the lexicographic order of the
\* positions
Combination(seqs, k) ==
    [i \in 1..Len(seqs) |->
        seqs[i][((k \div Combinations(seqs, i + 1)) % Len(seqs[i])) + 1]]

UnionOf(seqs) ==
    LET S == UNION { { seqs[i][j] : j \in 1..Len(seqs[i]) } : i \in 1..Len(seqs) }
    IN  CHOOSE q \in [1..Cardinality(S) -> S] : \A i \in 1..(Cardinality(S) - 1) : q[i] < q[i + 1]

\* C33: SortedUnion over ascending sequences without repeats comes to its
\* end and has yielded every element of some sequence once, in ascending
\* order, for a comparator that tells the order by any negative number,
\* zero or any positive number.
C33_UnionTerminates ==
    <>(ret # Nil /\ ret.pc = "done" /\ ret.out = UnionOf(ret.seqs))

\* the same for cmp.Compare alone
C33_UnionOfCmpCompare ==
    (ret # Nil /\ ret.kind = "cmp.Compare" /\ ret.pc # "start")
        => (ret.pc = "done" /\ ret.out = UnionOf(ret.seqs))

\* C34: while a watched file cannot be read and does not change on disk,
\* the Watcher broadcasts for it at most once, and not at all when the
\* file was already unreadable as Watch added it: the polls and forced
\* rechecks after the one broadcast make none.
C34_UnreadableSignalsOnce ==
    (ret # Nil /\ ret.op = "Watcher")
        => \A p \in Paths :
              (ret.watching[p].on /\ Unreadable(ret.fs[p]))
                  => /\ ret.signals[p] <= 1
                     /\ ret.added[p] => ret.signals[p] = 0

\* an unreadable file was broadcast once and its forced recheck made no
\* broadcast
C34_Witness ==
    /\ ret # Nil /\ ret.op = "Watcher"
    /\ \E p \in Paths :
          /\ ret.watching[p].on /\ Unreadable(ret.fs[p])
          /\ ret.signals[p] = 1 /\ ret.pending[p] = 0
          /\ ret.last = [op |-> "recheck", changed |-> FALSE]

\* C35: when a Put or Patch commits, the enforcement of the capacity of a
\* type T it touched counts the live records of type T and no other, and
\* the records of the types it did not touch are as they were.
C35_CapacityCountsOwnType ==
    [][\A w \in Writers :
         (wr[w].pc = "locked" /\ wr'[w].pc # "locked")
             => LET rw == View(db, wr[w].batch)
                IN  /\ \A T \in wr[w].types :
                          capacityOf(rw, T) # Nil
                              => Len(iterateForRecordTypeReversed(rw, T))
                                    = Cardinality(LiveOfType(rw, T))
                    /\ \A T \in RecordTypes \ wr[w].types :
                          /\ LiveOfType(db', T) = LiveOfType(db, T)
                          /\ \A k \in LiveOfType(db, T) : db'[k] = db[k]]_vars

\* the stored options, by key
OptionsEntries(r) ==
    { << k, r[k] >> : k \in { x \in DOMAIN r : x[1] = prefixOptionsKeySpace } }

\* C36: a step that changes the stored options changes those of one record
\* type and nothing else: every record, index entry and change log entry,
\* latest_record_version and server_version stay, no record is evicted,
\* and no subscriber is woken.
C36_SetOptionsChangesOptionsOnly ==
    [][OptionsEntries(db') # OptionsEntries(db)
         => /\ \E recordType \in RecordTypes :
                  \A k \in DOMAIN db \cup DOMAIN db' :
                      k # optionsEncodeKey(recordType)
                          => k \in DOMAIN db /\ k \in DOMAIN db' /\ db'[k] = db[k]
            /\ hist' = hist /\ nRemoved' = nRemoved
            /\ sub' = sub /\ onRecordChange' = onRecordChange]_vars

\* a capacity lower than the number of live records of the type is stored,
\* the records are all there, and a subscriber waits
C36_Witness ==
    /\ capacityOf(db, <<1>>) = << 0 >>
    /\ LiveOfType(db, <<1>>) # {}
    /\ mu = "free"
    /\ \E s \in Subscribers : sub[s].pc = "select" /\ ~onRecordChange[s]

\* the filter evaluated as it stands: an Equals by its match, And when all
\* children match, Or when some child matches, no filter always
RECURSIVE Evaluate(_, _)
Evaluate(filter, record) ==
    IF filter = Nil THEN TRUE
    ELSE IF filter.kind = "equals" THEN MatchesRecord(Named(filter), record).match
    ELSE IF filter.kind = "and"
    THEN \A i \in 1..Len(filter.children) : Evaluate(filter.children[i], record)
    ELSE \E i \in 1..Len(filter.children) : Evaluate(filter.children[i], record)

\* C37: for every filter, And and Or without children and no filter among
\* them, and every record, the match through FilterToDNF (all Equals of
\* some conjunct match) is the answer of the filter evaluated as it stands.
C37_DNFMatchesAsFilter ==
    (ret # Nil /\ ret.op = "MatchesDNF" /\ ret.pc = "done")
        => ret.match = Evaluate(ret.filter, ret.record)

\* the same, for the filters in which every And and Or has a child
RECURSIVE NoEmptyList(_)
NoEmptyList(filter) ==
    \/ filter = Nil
    \/ filter.kind = "equals"
    \/ /\ filter.children # <<>>
       /\ \A i \in 1..Len(filter.children) : NoEmptyList(filter.children[i])

C37_DNFMatchesAsFilterWithChildren ==
    (ret # Nil /\ ret.op = "MatchesDNF" /\ ret.pc = "done" /\ NoEmptyList(ret.filter))
        => ret.match = Evaluate(ret.filter, ret.record)

\* C38: when an input of the reconciliation yields an error, the next item
\* the reconciler yields is that error (the original's when both inputs
\* gave one) and it is the last: no item follows an error. When the
\* consumer declines an item the reconciler pulls no more from the inputs.
\* Whenever it returns, both input iterators are stopped.
C38_ErrorEndsReconcile ==
    (ret # Nil /\ ret.op = "ReconcileErrors")
        => LET o == ret.originalRecord
               d == ret.desiredRecord
               failed == o.err # "nil" \/ d.err # "nil"
           IN  /\ \A i \in 1..(Len(ret.out) - 1) : ret.out[i].err = "nil"
               /\ (failed /\ ret.pc = "loop") => ret.afterErr = 0
               /\ (failed /\ ret.pc = "returned")
                     => /\ ret.afterErr = 1
                        /\ ret.out[Len(ret.out)]
                              = [change |-> Nil,
                                 err |-> IF o.err # "nil" THEN o.err ELSE d.err]
               /\ ret.pc = "returned" => ret.originalStop /\ ret.desiredStop
               /\ ret.declined
                     => ret.pc = "returned" /\ ret.pulls = ret.pulledAtYield

\* a change was yielded, then the error of the desired input as the last
\* item, and both inputs are stopped
C38_Witness ==
    /\ ret # Nil /\ ret.op = "ReconcileErrors" /\ ret.pc = "returned"
    /\ Len(ret.out) = 2 /\ ret.out[1].err = "nil" /\ ret.out[2].err = "e2"
    /\ ret.desiredRecord.err = "e2"
    /\ ret.originalStop /\ ret.desiredStop

\* C39: for a record type without a zero byte, a modified_at and an id,
\* decodeKey of the index key encodeKey made returns that record type, that
\* modified_at and that id.
C39_IndexKeyRoundTrip ==
    (ret # Nil /\ ret.op = "indexKey" /\ ret.pc = "done")
        => /\ ret.decoded.ok
           /\ ret.decoded.recordType = ret.recordType
           /\ ret.decoded.modifiedAt = ret.modifiedAt
           /\ ret.decoded.recordID = ret.recordID

\* the same, the id read back being the id after one zero byte
C39_IndexKeyIDAfterSeparator ==
    (ret # Nil /\ ret.op = "indexKey" /\ ret.pc = "done")
        => /\ ret.decoded.ok
           /\ ret.decoded.recordType = ret.recordType
           /\ ret.decoded.modifiedAt = ret.modifiedAt
           /\ ret.decoded.recordID = << 0 >> \o ret.recordID

\* C6: every removal of a live record appends one tombstone under a new
\* version.
C6_RemovalAppendsTombstone ==
    /\ Cardinality(Tombstones(db)) = nRemoved
    /\ getLatestRecordVersion(db) = Len(hist) + nRemoved

\* C7: of two back-to-back Puts deleting one existing (type, id), the first
\* appends one tombstone and the second changes nothing.
C7_IdempotentDelete ==
    (delRun # Nil /\ delRun.n = 2) =>
        /\ delRun.last.log = delRun.first.log + 1
        /\ delRun.last.latest = delRun.first.latest + 1
        /\ delRun.unchanged

====
